---- MODULE Spec2Model ----
(***************************************************************************)
(* State-machine model of the BASIL step sequencer of quantiphyse-asl      *)
(* (src/basil/process.py, class BasilProcess) together with the fabber     *)
(* process it drives through fabber.execute / fabber.cancel and from which *)
(* it receives the sig_finished and sig_progress callbacks.                *)
(*                                                                         *)
(* The Python handlers are translated as operators over a record `s' that  *)
(* holds the fields of the BasilProcess object and the calls/signals it    *)
(* has made; each action applies one handler to the current state.         *)
(***************************************************************************)
EXTENDS Integers, Sequences, FiniteSets, TLC

(***************************************************************************)
(* Bounds of the model.                                                    *)
(***************************************************************************)
\* number of Workspace objects created
MaxWorkspaces == 2
\* the longest matrix text parsed, in characters
MaxText == 5
\* the largest number of rows and of columns of a matrix serialized
MaxDim == 2
\* number of calls of Workspace.run and of the tool wrappers
MaxCalls == 1
\* longest step list basil.get_steps returns
MaxSteps == 2
\* number of calls of run() on the one BasilProcess instance
MaxRuns == 2
\* number of progress callbacks recorded in progress_hist during one run
MaxProgress == 2
\* number of processes of the script a MacroProcess runs
MaxProcs == 2

(***************************************************************************)
(* Process status values (quantiphyse Process; the initial value is the    *)
(* one the spec calls PENDING).                                            *)
(***************************************************************************)
PENDING == "PENDING"
RUNNING == "RUNNING"
SUCCEEDED == "SUCCEEDED"
FAILED == "FAILED"
CANCELLED == "CANCELLED"

\* statuses a finished fabber invocation reports in its completion callback
CompletionStatus == {SUCCEEDED, FAILED, CANCELLED}

(***************************************************************************)
(* Python dictionaries are functions from keys to values; d[k] = v is Put. *)
(***************************************************************************)
Put(d, k, v) == [x \in (DOMAIN d) \cup {k} |-> IF x = k THEN v ELSE d[x]]

\* the dictionary d without the keys in K (each popped)
Without(d, K) == [x \in (DOMAIN d) \ K |-> d[x]]

\* the dictionary holding k exactly if the optional value o is given
Opt(k, o) == [x \in {y \in {k} : o # {}} |-> CHOOSE v \in o : TRUE]

(***************************************************************************)
(* The options a caller passes to BasilProcess.run: the structure of the   *)
(* acquisition (casl, taus, tis, plds) and an image option (t1im).  Times  *)
(* are in tenths of a second.                                              *)
(***************************************************************************)
CaslChoices == {{}, {TRUE}, {FALSE}}
TausChoices == {{}, {<<14>>}, {<<14, 14>>}, {<<14, 16>>}}
TisChoices == {{}, {<<10>>}, {<<10, 20>>}}
PldsChoices == {{}, {<<10, 20>>}}
\* names of datasets an image option may give: one in ivm.data, one in
\* ivm.rois, one in neither
ImageChoices == {{}, {"T1map"}, {"wm_roi"}, {"nothere"}}

RunOptions(casl, taus, tis, plds, t1im) ==
    Opt("casl", casl) @@ Opt("taus", taus) @@ Opt("tis", tis)
        @@ Opt("plds", plds) @@ Opt("t1im", t1im)

AllRunOptions ==
    {RunOptions(casl, taus, tis, plds, t1im) :
         casl \in CaslChoices, taus \in TausChoices, tis \in TisChoices,
         plds \in PldsChoices, t1im \in ImageChoices}

\* a pulsed acquisition with one delay, with and without a missing image
BasicRunOptions ==
    {RunOptions({FALSE}, {}, {<<10>>}, {}, t1im) : t1im \in {{}, {"nothere"}}}

\* str(x) of a time x, and fsl.Image(name, role=role)
Str(x) == [str |-> x]
Image(name, role) == [image |-> name, role |-> role]

\* the empty dictionary
EmptyDict == [x \in {} |-> ""]

SeqMin(q) == CHOOSE x \in {q[i] : i \in DOMAIN q} : \A i \in DOMAIN q : x <= q[i]
SeqMax(q) == CHOOSE x \in {q[i] : i \in DOMAIN q} : \A i \in DOMAIN q : x >= q[i]

(***************************************************************************)
(* Steps as returned by basil.get_steps: tuples                            *)
(*   (step, step_desc, infile, mask, options, prev_step)                   *)
(* prev_step is optional: {} stands for None, {p} for predecessor p.       *)
(* Each step after the first names the step before it.                     *)
(***************************************************************************)
StepOptions == [k \in {"inctiss", "infertiss"} |-> ""]

MkStep(i, prev) ==
    [step |-> i, step_desc |-> i, infile |-> "asldata", mask |-> "roi",
     options |-> StepOptions, prev_step |-> prev]

PrevChoices(i) == IF i = 0 THEN {{}} ELSE {{i - 1}}

RECURSIVE StepLists(_)
StepLists(n) ==
    IF n = 0 THEN {<<>>}
    ELSE {Append(l, MkStep(n - 1, prev)) :
              l \in StepLists(n - 1), prev \in PrevChoices(n - 1)}

AllStepLists == UNION {StepLists(n) : n \in 0..MaxSteps}

(***************************************************************************)
(* Progress fractions reported by a fabber invocation.  A fraction is      *)
(* either a Python float num/den or a Python int (whole number).           *)
(***************************************************************************)
Float(n, d) == [whole |-> FALSE, num |-> n, den |-> d]
Whole(n) == [whole |-> TRUE, num |-> n, den |-> 1]

Fractions == {Float(0, 1), Float(1, 2), Float(1, 1), Whole(0), Whole(1)}

\* the value of a fraction, in halves
Level(complete) == (2 * complete.num) \div complete.den

\* floor division on integers (Python 2 int / int), b > 0
FloorDiv(a, b) == a \div b

\* a rational as emitted on sig_progress
Rat(n, d) == [num |-> n, den |-> d]
RatEq(a, b) == a.num * b.den = b.num * a.den
RatLeq(a, b) == a.num * b.den <= b.num * a.den

VARIABLES
    status,        \* self.status
    steps,         \* self.steps
    step_num,      \* self.step_num
    log,           \* self.log, a sequence of text blocks
    ivm_data,      \* names in self.ivm.data
    inflight,      \* fabber invocations dispatched and not yet completed
    cancel_req,    \* invocations in flight when self.fabber.cancel() was called
    last_done,     \* the invocation that completed last in this run, if any
    executed,      \* calls of self.fabber.execute since run() was last called
    sig_step,      \* values emitted on sig_step since run() was last called
    sig_finished,  \* emissions of sig_finished since run() was last called
    sig_progress,  \* the value emitted on sig_progress by the last event, if any
    progress_hist, \* the progress reports of this run and what was emitted for each
    nruns,         \* calls of run() that reached the step list; id of the current run
    ev,            \* the last event handled
    ivm_rois,      \* names in self.ivm.rois
    extras,        \* self.ivm.extras["ASL_STRUCTURE_" + name], if stored
    struc,         \* self.struc, if set
    basil_options, \* the options of the last call of basil.get_steps, if any
    run_options,   \* the options argument of the last call of run(), if any
    run_result,    \* what the last call of run() raised, "ok" if nothing
    extras_out,    \* self.ivm.extras["ASL_STRUCTURE_" + output_name], if stored
    macro,         \* a MacroProcess: status, log, exception, signals emitted
    script,        \* the Script it owns: its processes started and done
    wsps,          \* the Workspace objects created: workdir, is_temp, released
    fs_dirs,       \* the directories that exist
    fs_files,      \* the files that exist: path |-> modification time and kind
    now,           \* the clock the modification times are taken from
    cwd,           \* the current directory of the process, os.getcwd()
    ncalls,        \* the number of calls of Workspace.run and of the wrappers
    wcall          \* the last call made on a workspace and what it returned

vars == <<status, steps, step_num, log, ivm_data, inflight, cancel_req,
          last_done, executed, sig_step, sig_finished, sig_progress,
          progress_hist, nruns, ev, ivm_rois, extras, struc, basil_options,
          run_options, run_result, extras_out, macro, script, wsps, fs_dirs,
          fs_files, now, cwd, ncalls, wcall>>

\* the BasilProcess and its stores; the workspaces and the file system
procvars == <<status, steps, step_num, log, ivm_data, inflight, cancel_req,
              last_done, executed, sig_step, sig_finished, sig_progress,
              progress_hist, nruns, ev, ivm_rois, extras, struc,
              basil_options, run_options, run_result, extras_out, macro,
              script>>
\* the BasilProcess and its stores without the last event
basilvars == <<status, steps, step_num, log, ivm_data, inflight, cancel_req,
               last_done, executed, sig_step, sig_finished, sig_progress,
               progress_hist, nruns, ivm_rois, extras, struc, basil_options,
               run_options, run_result, extras_out>>
wspvars == <<wsps, fs_dirs, fs_files, now, cwd, ncalls, wcall>>

\* the BasilProcess object, the fabber process it owns and its signals
Self ==
    [status |-> status, steps |-> steps, step_num |-> step_num, log |-> log,
     ivm_data |-> ivm_data, inflight |-> inflight, executed |-> executed,
     sig_step |-> sig_step, sig_finished |-> sig_finished,
     sig_progress |-> sig_progress, run |-> nruns, ivm_rois |-> ivm_rois,
     extras |-> extras, struc |-> struc, basil_options |-> basil_options,
     run_result |-> run_result, extras_out |-> extras_out]

Assign(s) ==
    /\ status' = s.status
    /\ steps' = s.steps
    /\ step_num' = s.step_num
    /\ log' = s.log
    /\ ivm_data' = s.ivm_data
    /\ inflight' = s.inflight
    /\ executed' = s.executed
    /\ sig_step' = s.sig_step
    /\ sig_finished' = s.sig_finished
    /\ sig_progress' = s.sig_progress
    /\ nruns' = s.run
    /\ ivm_rois' = s.ivm_rois
    /\ extras' = s.extras
    /\ struc' = s.struc
    /\ basil_options' = s.basil_options
    /\ run_result' = s.run_result
    /\ extras_out' = s.extras_out

(***************************************************************************)
(* Fabber invocations.  Within one run every step is dispatched at most    *)
(* once, so (run, step) identifies an invocation.                          *)
(***************************************************************************)
InvId(run, step) == [run |-> run, step |-> step]
NoInv == InvId(0, 0)
Invocation(run, step, options) == [id |-> InvId(run, step), options |-> options]

\* self.fabber.execute(options): the fabber process starts an invocation
fabber_execute(s, step, options) ==
    LET inv == Invocation(s.run, step, options)
    IN  [s EXCEPT !.executed = Append(@, inv), !.inflight = @ \cup {inv}]

(***************************************************************************)
(* Text blocks appended to self.log.                                       *)
(***************************************************************************)
LogEntry(kind, step, init, inv) ==
    [kind |-> kind, step |-> step, init |-> init, inv |-> inv]

\* the text basil.get_steps wrote to logbuf
StepsLog == LogEntry("get_steps", 0, {}, NoInv)
\* step_desc + "\n\n"; init is {p} when " - init with STEP p" was added
DescLog(desc, init) == LogEntry("step_desc", desc, init, NoInv)
\* log + "\n\n", log being what the fabber process passes to sig_finished
FabberLog(inv) == LogEntry("fabber_log", 0, {}, inv)
CompleteLog == LogEntry("COMPLETE", 0, {}, NoInv)
CancelledLog == LogEntry("CANCELLED", 0, {}, NoInv)

NoException == "None"

(***************************************************************************)
(* BasilProcess._start_fabber, process.py:203-238                          *)
(***************************************************************************)
\* the test made against the index of the step, one less than step_num
IsFinalStepMut(s) == s.step_num = Len(s.steps) - 1

\* process.py:210  if self.step_num == len(self.steps)
IsFinalStep(s) == s.step_num = Len(s.steps)

\* process.py:210-217
SaveOptions(s, options) ==
    IF IsFinalStep(s)
    THEN Put(Put(Put(options, "save-mean", ""), "save-std", ""), "save-model-fit", "")
    ELSE Put(options, "save-mvn", "")

\* the test made as "if prev_step", which predecessor 0 fails
HasPrevStepMut(prev_step) == prev_step # {} /\ prev_step # {0}

\* process.py:229  if prev_step is not None
HasPrevStep(prev_step) == prev_step # {}

\* _start_fabber writing into the option mapping of the step itself
_start_fabber_no_copy(s, step, step_desc, infile, mask, options, prev_step) ==
    LET o1 == Put(options, "model-group", "asl")
        o2 == Put(o1, "data", infile)
        o3 == Put(o2, "roi", mask)
        o4 == SaveOptions(s, o3)
        o5 == Put(o4, "output-rename", "oxford_asl names")
        desc == IF HasPrevStep(prev_step) THEN DescLog(step_desc, prev_step)
                ELSE DescLog(step_desc, {})
        o6 == IF HasPrevStep(prev_step) THEN Put(o5, "continue-from-mvn", "finalMVN")
              ELSE o5
        s1 == [s EXCEPT !.sig_step = Append(@, step_desc),
                        !.log = Append(@, desc),
                        !.steps[s.step_num].options = o6]
    IN  fabber_execute(s1, step, o6)

_start_fabber(s, step, step_desc, infile, mask, options, prev_step) ==
    LET o1 == Put(options, "model-group", "asl")
        o2 == Put(o1, "data", infile)
        o3 == Put(o2, "roi", mask)
        o4 == SaveOptions(s, o3)
        o5 == Put(o4, "output-rename", "oxford_asl names")
        desc == IF HasPrevStep(prev_step) THEN DescLog(step_desc, prev_step)
                ELSE DescLog(step_desc, {})
        o6 == IF HasPrevStep(prev_step) THEN Put(o5, "continue-from-mvn", "finalMVN")
              ELSE o5
        s1 == [s EXCEPT !.sig_step = Append(@, step_desc),
                        !.log = Append(@, desc)]
    IN  fabber_execute(s1, step, o6)

(***************************************************************************)
(* BasilProcess._next_step, process.py:184-201                             *)
(***************************************************************************)
\* self.sig_finished.emit(self.status, self.log, exception)
EmitFinished(s, exception) ==
    [s EXCEPT !.sig_finished =
        Append(@, [status |-> s.status, log |-> s.log, exception |-> exception])]

\* _next_step without the removal of finalMVN from the data store
_next_step_keep_mvn(s) ==
    IF s.status # RUNNING THEN s
    ELSE IF s.step_num < Len(s.steps)
    THEN LET step == s.steps[s.step_num + 1]
             s1 == [s EXCEPT !.step_num = @ + 1]
         IN  _start_fabber(s1, step.step, step.step_desc, step.infile,
                           step.mask, step.options, step.prev_step)
    ELSE LET s1 == [s EXCEPT !.log = Append(@, CompleteLog),
                             !.status = SUCCEEDED,
                             !.steps = <<>>,
                             !.step_num = 0]
         IN  EmitFinished(s1, NoException)

\* _next_step leaving the step list and the step index as they are at the end
_next_step_keep_steps(s) ==
    IF s.status # RUNNING THEN s
    ELSE IF s.step_num < Len(s.steps)
    THEN LET step == s.steps[s.step_num + 1]
             s1 == [s EXCEPT !.step_num = @ + 1]
         IN  _start_fabber(s1, step.step, step.step_desc, step.infile,
                           step.mask, step.options, step.prev_step)
    ELSE LET s1 == [s EXCEPT !.log = Append(@, CompleteLog),
                             !.status = SUCCEEDED,
                             !.ivm_data = @ \ {"finalMVN"}]
         IN  EmitFinished(s1, NoException)

_next_step(s) ==
    IF s.status # RUNNING THEN s
    ELSE IF s.step_num < Len(s.steps)
    THEN LET step == s.steps[s.step_num + 1]
             s1 == [s EXCEPT !.step_num = @ + 1]
         IN  _start_fabber(s1, step.step, step.step_desc, step.infile,
                           step.mask, step.options, step.prev_step)
    ELSE LET s1 == [s EXCEPT !.log = Append(@, CompleteLog),
                             !.status = SUCCEEDED,
                             !.steps = <<>>,
                             !.step_num = 0,
                             !.ivm_data = @ \ {"finalMVN"}]
         IN  EmitFinished(s1, NoException)

(***************************************************************************)
(* BasilProcess._fabber_finished, process.py:240-252                       *)
(***************************************************************************)
\* _fabber_finished going on to the next step whatever status is reported
_fabber_finished_any_status(s, st, sublog, exception) ==
    IF s.status # RUNNING THEN s
    ELSE _next_step([s EXCEPT !.log = Append(@, sublog)])

\* _fabber_finished recording every failure as FAILED
_fabber_finished_failed(s, st, sublog, exception) ==
    IF s.status # RUNNING THEN s
    ELSE LET s1 == [s EXCEPT !.log = Append(@, sublog)]
         IN  IF st = SUCCEEDED THEN _next_step(s1)
             ELSE EmitFinished([s1 EXCEPT !.log = Append(@, CancelledLog),
                                          !.status = FAILED],
                               exception)

\* _fabber_finished putting the annotation before the invocation's log
_fabber_finished_annotation_first(s, st, sublog, exception) ==
    IF s.status # RUNNING THEN s
    ELSE IF st = SUCCEEDED THEN _next_step([s EXCEPT !.log = Append(@, sublog)])
    ELSE EmitFinished([s EXCEPT !.log = @ \o <<CancelledLog, sublog>>,
                                !.status = st],
                      exception)

\* _fabber_finished without the test of self.status
_fabber_finished_no_guard(s, st, sublog, exception) ==
    LET s1 == [s EXCEPT !.log = Append(@, sublog)]
    IN  IF st = SUCCEEDED THEN _next_step(s1)
        ELSE EmitFinished([s1 EXCEPT !.log = Append(@, CancelledLog),
                                     !.status = st],
                          exception)

\* _fabber_finished leaving the run RUNNING when the invocation failed
_fabber_finished_failure_unrecorded(s, st, sublog, exception) ==
    IF s.status # RUNNING THEN s
    ELSE LET s1 == [s EXCEPT !.log = Append(@, sublog)]
         IN  IF st = SUCCEEDED THEN _next_step(s1)
             ELSE [s1 EXCEPT !.log = Append(@, CancelledLog)]

_fabber_finished(s, st, sublog, exception) ==
    IF s.status # RUNNING THEN s
    ELSE LET s1 == [s EXCEPT !.log = Append(@, sublog)]
         IN  IF st = SUCCEEDED THEN _next_step(s1)
             ELSE EmitFinished([s1 EXCEPT !.log = Append(@, CancelledLog),
                                          !.status = st],
                               exception)

(***************************************************************************)
(* BasilProcess._fabber_progress, process.py:254-258                       *)
(* (self.step_num - 1 + complete)/len(self.steps) in Python 2: floor       *)
(* division when complete is an int, true division when it is a float.     *)
(* With an empty step list the division raises ZeroDivisionError and       *)
(* nothing is emitted.                                                     *)
(***************************************************************************)
ScaledProgress(k, complete, n) ==
    IF complete.whole
    THEN Rat(FloorDiv(k - 1 + complete.num, n), 1)
    ELSE Rat((k - 1) * complete.den + complete.num, complete.den * n)

\* _fabber_progress without the test of self.status
_fabber_progress_no_guard(s, complete) ==
    IF Len(s.steps) > 0
    THEN [s EXCEPT !.sig_progress =
              Append(@, ScaledProgress(s.step_num, complete, Len(s.steps)))]
    ELSE s

_fabber_progress(s, complete) ==
    IF s.status = RUNNING /\ Len(s.steps) > 0
    THEN [s EXCEPT !.sig_progress =
              Append(@, ScaledProgress(s.step_num, complete, Len(s.steps)))]
    ELSE s

(***************************************************************************)
(* AslProcess.get_asldata, process.py:31-65.  The stored structure is      *)
(* loaded, each of the seven structure options is set from the call or     *)
(* removed, AslImage is constructed (it raises when the structure is       *)
(* insufficient or inconsistent) and only then the structure is stored.    *)
(***************************************************************************)
StrucKeys == {"order", "rpts", "taus", "casl", "tis", "plds", "nphases"}

\* yaml.dump / yaml.load of a structure
YamlDump(d) == [yaml |-> d]
YamlLoad(y) == y.yaml

\* AslImage(...) accepts the structure: the delays are given, as tis or as
\* plds and not as both
AslImageOk(d) == ("tis" \in DOMAIN d) # ("plds" \in DOMAIN d)

\* self.asldata.tis
AslTis(d) == IF "tis" \in DOMAIN d THEN d["tis"] ELSE d["plds"]

\* process.py:39-50
MergeStruc(stored, options) ==
    LET given == (DOMAIN options) \cap StrucKeys
    IN  [k \in ((DOMAIN stored) \ StrucKeys) \cup given |->
             IF k \in given THEN options[k] ELSE stored[k]]

\* get_asldata storing the structure before AslImage is constructed
get_asldata_store_first(s, options) ==
    LET stored == IF s.extras = {} THEN EmptyDict
                  ELSE YamlLoad(CHOOSE y \in s.extras : TRUE)
        d == MergeStruc(stored, options)
        s1 == [s EXCEPT !.struc = {d}, !.extras = {YamlDump(d)}]
    IN  IF ~AslImageOk(d) THEN [s1 EXCEPT !.run_result = "AslImageError"]
        ELSE [s1 EXCEPT !.run_result = "ok"]

get_asldata(s, options) ==
    LET stored == IF s.extras = {} THEN EmptyDict
                  ELSE YamlLoad(CHOOSE y \in s.extras : TRUE)
        d == MergeStruc(stored, options)
        s1 == [s EXCEPT !.struc = {d}]
    IN  IF ~AslImageOk(d) THEN [s1 EXCEPT !.run_result = "AslImageError"]
        ELSE [s1 EXCEPT !.extras = {YamlDump(d)}, !.run_result = "ok"]

(***************************************************************************)
(* BasilProcess.run, process.py:126-179.  new_steps is the value of        *)
(* basil.get_steps.  The histories executed, sig_step and sig_finished     *)
(* restart with the run.                                                   *)
(***************************************************************************)
\* the lookup of an image option that takes every name as found
ImageFoundAlways(s, name) == TRUE

\* process.py:148-149  self.ivm.data.get(name, self.ivm.rois.get(name, None))
ImageFound(s, name) == name \in s.ivm_data \cup s.ivm_rois

TauKey(i) == <<"tau1", "tau2", "tau3">>[i]
TiKey(i) == <<"ti1", "ti2", "ti3">>[i]

\* one shared duration only when a single duration is given
SingleTauMut(taus) == Len(taus) = 1

\* process.py:160  min(taus) == max(taus)
SingleTau(taus) == SeqMin(taus) = SeqMax(taus)

\* process.py:158-164
TauOptions(options, taus) ==
    LET o1 == Put(options, "casl", "")
        keys == {TauKey(i) : i \in 1..Len(taus)}
    IN  IF SingleTau(taus) THEN Put(o1, "tau", Str(taus[1]))
        ELSE [k \in (DOMAIN o1) \cup keys |->
                  IF k \in keys
                  THEN Str(taus[CHOOSE i \in 1..Len(taus) : TauKey(i) = k])
                  ELSE o1[k]]

\* process.py:168-169  ti += taus[idx] when casl
TiValue(ti, casl, taus, i) == IF casl THEN ti + taus[i] ELSE ti

\* process.py:167-170; taus[idx] raises IndexError past the end of taus
TiRaises(tis, casl, taus) == casl /\ Len(taus) < Len(tis)

TiOptions(options, tis, casl, taus) ==
    LET keys == {TiKey(i) : i \in 1..Len(tis)}
    IN  [k \in (DOMAIN options) \cup keys |->
             IF k \in keys
             THEN LET i == CHOOSE n \in 1..Len(tis) : TiKey(n) = k
                  IN  Str(TiValue(tis[i], casl, taus, i))
             ELSE options[k]]

\* process.py:155-179, once the image options are resolved
run_steps(s, d, options, new_steps) ==
    IF "casl" \notin DOMAIN d THEN [s EXCEPT !.run_result = "KeyError"]
    ELSE IF d["casl"] /\ "taus" \notin DOMAIN d
    THEN [s EXCEPT !.run_result = "KeyError"]
    ELSE LET casl == d["casl"]
             taus == IF casl THEN d["taus"] ELSE <<>>
             o1 == IF casl THEN TauOptions(options, taus) ELSE options
         IN  IF TiRaises(AslTis(d), casl, taus)
             THEN [s EXCEPT !.run_result = "IndexError"]
             ELSE _next_step([s EXCEPT
                      !.basil_options = {TiOptions(o1, AslTis(d), casl, taus)},
                      !.steps = new_steps,
                      !.log = <<StepsLog>>,
                      !.step_num = 0,
                      !.status = RUNNING,
                      !.run = @ + 1,
                      !.executed = <<>>,
                      !.sig_step = <<>>,
                      !.sig_finished = <<>>])

run(s, options, new_steps) ==
    LET s1 == get_asldata(s, options)
    IN  IF s1.run_result # "ok" THEN s1
        ELSE LET d == CHOOSE x \in s1.struc : TRUE
                 s2 == [s1 EXCEPT !.ivm_rois = @ \cup {"roi"},
                                  !.ivm_data = @ \cup {"asldata"}]
                 o1 == Put(Put(Without(options, StrucKeys),
                               "asldata", Image("asldata", "")),
                           "mask", Image("roi", "Mask"))
             IN  IF "t1im" \notin DOMAIN o1 THEN run_steps(s2, d, o1, new_steps)
                 ELSE IF ImageFound(s2, o1["t1im"])
                 THEN run_steps(s2, d,
                                Put(o1, "t1im", Image(o1["t1im"], "T1 map")),
                                new_steps)
                 ELSE [s2 EXCEPT !.run_result = "QpException"]

(***************************************************************************)
(* AslPreprocProcess.run, process.py:82-105.  The image is differenced,    *)
(* reordered and averaged across repeats as the options say (AslImage is   *)
(* not part of the sources: what it is after these operations is recorded  *)
(* as the structure it had and the operations applied); it is added to     *)
(* the data store under the output name and its structure is stored.       *)
(***************************************************************************)
\* self.asldata.iname + "_preproc" for the dataset asldata_raw
PreprocName == "asldata_raw_preproc"

\* process.py:85-93: the operations applied, in their order
AslOps(options) ==
    (IF "diff" \in DOMAIN options /\ options["diff"] THEN <<"diff">> ELSE <<>>)
        \o (IF "reorder" \in DOMAIN options THEN <<"reorder">> ELSE <<>>)
        \o (IF "mean" \in DOMAIN options /\ options["mean"] THEN <<"mean">> ELSE <<>>)

\* the structure of the image after the operations, process.py:97-100
NewStruc(d, ops) == [of |-> d, ops |-> ops]

AslPreprocProcess_run(s, options) ==
    LET s1 == get_asldata(s, options)
        d == CHOOSE x \in s1.struc : TRUE
        output_name == IF "output-name" \in DOMAIN options
                       THEN options["output-name"] ELSE PreprocName
    IN  IF s1.run_result # "ok" THEN s1
        ELSE [s1 EXCEPT !.ivm_data = @ \cup {output_name},
                        !.extras_out = {[name |-> output_name,
                                         yaml |-> YamlDump(NewStruc(d, AslOps(options)))]}]

(***************************************************************************)
(* BasilProcess.cancel, process.py:181-182: self.fabber.cancel() and       *)
(* nothing else; the fabber process notes the request (cancel_req).        *)
(***************************************************************************)
\* cancel ending the run itself instead of leaving it to the callback
cancel_ends_run(s) ==
    IF s.status # RUNNING THEN s
    ELSE EmitFinished([s EXCEPT !.log = Append(@, CancelledLog),
                                !.status = CANCELLED],
                      NoException)

cancel(s) == s

(***************************************************************************)
(* MacroProcess, process.py:260-306.  The Script it owns (quantiphyse,     *)
(* outside these sources) runs its processes one after the other and       *)
(* emits sig_start_process, sig_progress and sig_done_process for each     *)
(* and sig_finished at the end; after a process that did not succeed it    *)
(* either goes on with the next process or finishes.                       *)
(***************************************************************************)
\* the fields after Process.__init__, and the emissions since run()
MacroProcess_init ==
    [status |-> PENDING, log |-> <<>>, exception |-> NoException,
     sig_finished |-> <<>>, sig_progress |-> <<>>]

\* the script before it is run: n processes, none started
Script_init == [n |-> 0, started |-> 0, done |-> 0, failed |-> FALSE,
                finished |-> TRUE, runs |-> 0]

MacroLog(kind, proc) == [kind |-> kind, proc |-> proc]

\* process.py:270-272
MacroProcess_run(m) == [m EXCEPT !.status = RUNNING]

\* process.py:278-282
MacroProcess_start_process(m, proc) ==
    [m EXCEPT !.log = Append(@, MacroLog("Running", proc))]

\* process.py:284-294
MacroProcess_done_process(m, proc, proc_status, proc_exception) ==
    LET m1 == [m EXCEPT !.log = Append(@, MacroLog("process.log", proc))]
    IN  IF proc_status = SUCCEEDED
        THEN [m1 EXCEPT !.log = Append(@, MacroLog("DONE", proc))]
        ELSE LET m2 == [m1 EXCEPT !.log = Append(@, MacroLog("FAILED", proc)),
                                  !.status = proc_status,
                                  !.exception = proc_exception]
             IN  [m2 EXCEPT !.sig_finished =
                     Append(@, [status |-> m2.status, log |-> m2.log,
                                exception |-> m2.exception])]

\* process.py:296-300
MacroProcess_progress(m, complete) ==
    IF m.status = RUNNING THEN [m EXCEPT !.sig_progress = Append(@, complete)]
    ELSE m

\* process.py:302-306
MacroProcess_done_script(m) ==
    IF m.status = RUNNING
    THEN LET m1 == [m EXCEPT !.log = Append(@, MacroLog("Script finished", 0)),
                             !.status = SUCCEEDED]
         IN  [m1 EXCEPT !.sig_finished =
                 Append(@, [status |-> m1.status, log |-> m1.log,
                            exception |-> m1.exception])]
    ELSE m

(***************************************************************************)
(* Workspace, qpwrap.py:91-564.  Paths and file names are sequences of     *)
(* parts, so that one name can be the beginning of another ("a_bet" of     *)
(* "a_bet_mask.nii.gz"); the part "/" separates directories.               *)
(***************************************************************************)
Sep == "/"
\* the values a sequence holds
Elements(q) == {q[i] : i \in DOMAIN q}
\* os.path.join(dir, rel)
Join(dir, rel) == dir \o <<Sep>> \o rel
IsPrefix(p, q) == Len(p) <= Len(q) /\ SubSeq(q, 1, Len(p)) = p
\* path lies in directory dir, at any depth
Under(dir, path) == IsPrefix(dir \o <<Sep>>, path)
\* os.path.relpath(path, dir) for a path under dir
RelPath(path, dir) == SubSeq(path, Len(dir) + 2, Len(path))
\* os.path.basename(rel)
Basename(rel) ==
    LET seps == {i \in DOMAIN rel : rel[i] = Sep}
    IN  IF seps = {} THEN rel
        ELSE SubSeq(rel, (CHOOSE i \in seps : \A j \in seps : j <= i) + 1, Len(rel))
\* the directories a path lies in
ParentDirs(path) == {SubSeq(path, 1, i - 1) : i \in {j \in DOMAIN path : path[j] = Sep}}

\* a set as a sequence, in the order a dictionary is iterated in
RECURSIVE SeqOf(_)
SeqOf(S) == IF S = {} THEN <<>>
            ELSE LET x == CHOOSE y \in S : TRUE IN <<x>> \o SeqOf(S \ {x})

\* the workspaces, the directories, the files, the clock and the current
\* directory together
World == [wsps |-> wsps, dirs |-> fs_dirs, files |-> fs_files, now |-> now,
          cwd |-> cwd]

AssignWorld(W) ==
    /\ wsps' = W.wsps
    /\ fs_dirs' = W.dirs
    /\ fs_files' = W.files
    /\ now' = W.now
    /\ cwd' = W.cwd

NoFiles == [x \in {} |-> [mtime |-> 0, kind |-> ""]]
NoCall == [op |-> "none"]

\* names tempfile.mkdtemp gives, one for each workspace created
TempNames == <<"tmp1", "tmp2", "tmp3", "tmp4", "tmp5">>
\* the directory a caller supplies, and the name of a sub-workspace
GivenDir == <<"work">>
\* the directory the process is started in
StartDir == <<"home">>
SubName == "sub"

\* mkdir(dirname), qpwrap.py:602-612: os.makedirs, an existing directory kept
mkdir(W, dirname) == [W EXCEPT !.dirs = @ \cup {dirname} \cup ParentDirs(dirname)]

\* img.save(os.path.join(workdir, name)) for each name of imgs
SaveImgs(W, workdir, imgs) ==
    LET paths == {Join(workdir, imgs[i]) : i \in DOMAIN imgs}
    IN  [W EXCEPT !.files = [f \in (DOMAIN @) \cup paths |->
                                 IF f \in paths
                                 THEN [mtime |-> W.now, kind |-> "image"]
                                 ELSE @[f]]]

\* the directories searched for programs when no path is given,
\* qpwrap.py:130-136: the directory of the calling program and $FSLDIR/bin
LocalDir == <<"local">>
FslBin == <<"fsl", Sep, "bin">>
DefaultPath == <<LocalDir, FslBin>>

\* the keyword arguments log, path, debug and echo of Workspace(...), and
\* their defaults
Config(sink, path, debug, echo) ==
    [log |-> sink, path |-> path, debug |-> debug, echo |-> echo]
DefaultConfig == Config("stdout", DefaultPath, FALSE, FALSE)

\* the Workspace object made: qpwrap.py:119-124 and 137-140
WorkspaceObject(dir, is_temp, cfg) ==
    [workdir |-> dir, is_temp |-> is_temp, released |-> FALSE,
     path |-> cfg.path, log |-> cfg.log, debug_enabled |-> cfg.debug,
     echo_enabled |-> cfg.echo]

\* Workspace.__init__, qpwrap.py:102-143; workdir is {} for None
Workspace_init(W, workdir, imgs, cfg) ==
    IF workdir # {}
    THEN LET dir == CHOOSE d \in workdir : TRUE
             W1 == SaveImgs(mkdir(W, dir), dir, imgs)
         IN  [W1 EXCEPT !.wsps = Append(@, WorkspaceObject(dir, FALSE, cfg))]
    ELSE LET dir == <<TempNames[Len(W.wsps) + 1]>>
             W1 == SaveImgs([W EXCEPT !.dirs = @ \cup {dir}], dir, imgs)
         IN  [W1 EXCEPT !.wsps = Append(@, WorkspaceObject(dir, TRUE, cfg))]

\* Workspace.sub, qpwrap.py:207-217: log, echo and debug of the parent
sub(W, w, name, imgs) ==
    Workspace_init(W, {Join(W.wsps[w].workdir, <<name>>)}, imgs,
                   Config(W.wsps[w].log, DefaultPath, W.wsps[w].debug_enabled,
                          W.wsps[w].echo_enabled))

\* shutil.rmtree(dir)
rmtree(W, dir) ==
    [W EXCEPT !.dirs = {d \in @ : d # dir /\ ~Under(dir, d)},
              !.files = [f \in {g \in DOMAIN @ : ~Under(dir, g)} |-> @[f]]]

\* __del__ removing the directory of every workspace
Workspace_del_always(W, w) ==
    LET W1 == [W EXCEPT !.wsps[w].released = TRUE]
    IN  IF W.wsps[w].workdir \in W.dirs THEN rmtree(W1, W.wsps[w].workdir) ELSE W1

\* Workspace.__del__, qpwrap.py:145-147; rmtree of a directory that is gone
\* raises, which is ignored in __del__
Workspace_del(W, w) ==
    LET W1 == [W EXCEPT !.wsps[w].released = TRUE]
    IN  IF W.wsps[w].is_temp /\ W.wsps[w].workdir \in W.dirs
        THEN rmtree(W1, W.wsps[w].workdir)
        ELSE W1

\* the directories os.walk(top) visits: top, if it exists, and every
\* directory below it
Walk(W, top) == {d \in W.dirs : d = top \/ Under(top, d)}
\* the names os.walk gives for the directory d: of its files, of its
\* directories
NamesIn(paths, d) ==
    {RelPath(p, d) : p \in {q \in paths : Under(d, q) /\ Sep \notin Elements(RelPath(q, d))}}

\* Workspace._get_files without the calls of itself for the directories
_get_files_walk_only(W, self_workdir, workdir) ==
    LET names == UNION {NamesIn(DOMAIN W.files, d) : d \in Walk(W, workdir)}
        fnames == {RelPath(Join(workdir, n), self_workdir) : n \in names}
        found == {f \in fnames : Join(W.cwd, f) \in DOMAIN W.files}
    IN  [f \in found |-> W.files[Join(W.cwd, f)].mtime]

\* Workspace._get_files, qpwrap.py:501-515: name relative to the working
\* directory |-> modification time.  Every name os.walk gives, of a file or
\* of a directory at any depth, is joined to the argument workdir; a file is
\* looked up (isfile, getmtime) by its relative name, from the current
\* directory; walking a directory that does not exist gives nothing.
RECURSIVE _get_files(_, _, _)
_get_files(W, self_workdir, workdir) ==
    LET roots == Walk(W, workdir)
        names == UNION {NamesIn(DOMAIN W.files, d) : d \in roots}
        fnames == {RelPath(Join(workdir, n), self_workdir) : n \in names}
        found == {f \in fnames : Join(W.cwd, f) \in DOMAIN W.files}
        dirnames == UNION {NamesIn(W.dirs, d) : d \in roots}
        below == {_get_files(W, self_workdir, Join(workdir, n)) : n \in dirnames}
    IN  [f \in found \cup UNION {DOMAIN b : b \in below} |->
             IF \E b \in below : f \in DOMAIN b
             THEN (CHOOSE b \in below : f \in DOMAIN b)[f]
             ELSE W.files[Join(W.cwd, f)].mtime]

\* _changed_files taking only the files that were not there before
_changed_files_new_only(pre, post) ==
    LET IsNew(f) == f \notin DOMAIN pre
    IN  SelectSeq(SeqOf(DOMAIN post), IsNew)

\* Workspace._changed_files, qpwrap.py:517-529
_changed_files(pre, post) ==
    LET Changed(f) == f \notin DOMAIN pre \/ post[f] > pre[f]
    IN  SelectSeq(SeqOf(DOMAIN post), Changed)

\* re.match(exp, fname): the pattern matches at the beginning of the name
ReMatch(exp, fname) == IsPrefix(exp, fname)

\* qpwrap.py:543-546: fname once for every pattern of expected it matches
RECURSIVE ExpectedFiles(_, _)
ExpectedFiles(fnames, expected) ==
    IF fnames = <<>> THEN <<>>
    ELSE LET Hit(exp) == ReMatch(exp, Head(fnames))
         IN  [i \in 1..Len(SelectSeq(expected, Hit)) |-> Head(fnames)]
                 \o ExpectedFiles(Tail(fnames), expected)

\* qpwrap.py:541-548: the files to return
ReturnFiles(pre, post, expected) ==
    IF expected # <<>> THEN ExpectedFiles(SeqOf(DOMAIN post), expected)
    ELSE _changed_files(pre, post)

\* Image(fname) succeeds for a file that holds an image
LoadsAsImage(W, workdir, fname) == W.files[Join(workdir, fname)].kind = "image"
\* _read_text_file(fname) succeeds for a file that can be read as text
ReadsAsText(W, workdir, fname) == W.files[Join(workdir, fname)].kind = "text"

\* qpwrap.py:550-560 for the files that are not images: basename |-> file
RECURSIVE TextFiles(_, _)
TextFiles(fnames, text) ==
    IF fnames = <<>> THEN text
    ELSE TextFiles(Tail(fnames), Put(text, Basename(Head(fnames)), Head(fnames)))

\* Workspace._get_return_files, qpwrap.py:531-560
_get_return_files(W, workdir, pre, post, expected) ==
    LET return_files == ReturnFiles(pre, post, expected)
        IsImg(f) == LoadsAsImage(W, workdir, f)
        NotImg(f) == ~LoadsAsImage(W, workdir, f)
        others == SelectSeq(return_files, NotImg)
    IN  IF \E i \in DOMAIN others : ~ReadsAsText(W, workdir, others[i])
        THEN [raised |-> "IOError", files |-> return_files, imgs |-> <<>>,
              text |-> EmptyDict]
        ELSE [raised |-> "", files |-> return_files,
              imgs |-> SelectSeq(return_files, IsImg),
              text |-> TextFiles(others, EmptyDict)]

\* the program writes the files of writes (name, kind) at the time now
ProgramWrites(W, workdir, writes) ==
    LET paths == {Join(workdir, x.name) : x \in writes}
        KindOf(f) == (CHOOSE x \in writes : Join(workdir, x.name) = f).kind
    IN  [W EXCEPT !.files = [f \in (DOMAIN @) \cup paths |->
                                 IF f \in paths
                                 THEN [mtime |-> W.now, kind |-> KindOf(f)]
                                 ELSE @[f]],
                  !.dirs = @ \cup UNION {ParentDirs(f) : f \in paths}]

\* what a call returned or raised
Returned(op, w, expected, pre, post, got) ==
    [op |-> op, w |-> w, raised |-> got.raised, collected |-> TRUE,
     invoked |-> TRUE, expected |-> expected, pre |-> pre, post |-> post,
     files |-> got.files, imgs |-> got.imgs, text |-> got.text]
Raised(op, w, expected, error) ==
    [op |-> op, w |-> w, raised |-> error, collected |-> FALSE,
     invoked |-> TRUE, expected |-> expected, pre |-> EmptyDict, post |-> EmptyDict,
     files |-> <<>>, imgs |-> <<>>, text |-> EmptyDict]

\* Workspace.run raising only when the program cannot be started
Workspace_run_ignore_status(W, w, expected, exit, writes, tick) ==
    LET workdir == W.wsps[w].workdir
        W0 == [W EXCEPT !.cwd = workdir]
        pre == _get_files(W0, workdir, workdir)
        W1 == ProgramWrites([W0 EXCEPT !.now = @ + tick], workdir, writes)
        post == _get_files(W1, workdir, workdir)
        W2 == [W1 EXCEPT !.cwd = W.cwd]
    IN  IF workdir \notin W.dirs
        THEN [W |-> W, ret |-> Raised("run", w, expected, "OSError") @@ [ran_in |-> {}]]
        ELSE IF exit = "oserror"
        THEN [W |-> W, ret |-> Raised("run", w, expected, "OSError")
                                   @@ [ran_in |-> {W0.cwd}]]
        ELSE [W |-> W2,
              ret |-> Returned("run", w, expected, pre, post,
                               _get_return_files(W1, workdir, pre, post, expected))
                          @@ [ran_in |-> {W0.cwd}]]

\* Workspace.run, qpwrap.py:219-265.  exit is what became of the program:
\* "oserror" when Popen could not start it, otherwise its exit status;
\* writes are the files it wrote, tick whether the clock moved on.
\* os.chdir raises OSError when the working directory is gone; the program
\* runs in the current directory (ran_in), which the finally clause sets
\* back.
\* Workspace.run without the os.chdir(cwd) of its finally clause
Workspace_run_no_restore(W, w, expected, exit, writes, tick) ==
    LET workdir == W.wsps[w].workdir
        W0 == [W EXCEPT !.cwd = workdir]
        pre == _get_files(W0, workdir, workdir)
        W1 == ProgramWrites([W0 EXCEPT !.now = @ + tick], workdir, writes)
        post == _get_files(W1, workdir, workdir)
        W2 == W1
    IN  IF workdir \notin W.dirs
        THEN [W |-> W, ret |-> Raised("run", w, expected, "OSError") @@ [ran_in |-> {}]]
        ELSE IF exit = "oserror"
        THEN [W |-> W, ret |-> Raised("run", w, expected, "OSError")
                                   @@ [ran_in |-> {W0.cwd}]]
        ELSE IF exit # "0"
        THEN [W |-> W2, ret |-> Raised("run", w, expected, "RuntimeError")
                                    @@ [ran_in |-> {W0.cwd}]]
        ELSE [W |-> W2,
              ret |-> Returned("run", w, expected, pre, post,
                               _get_return_files(W1, workdir, pre, post, expected))
                          @@ [ran_in |-> {W0.cwd}]]

Workspace_run(W, w, expected, exit, writes, tick) ==
    LET workdir == W.wsps[w].workdir
        W0 == [W EXCEPT !.cwd = workdir]
        pre == _get_files(W0, workdir, workdir)
        W1 == ProgramWrites([W0 EXCEPT !.now = @ + tick], workdir, writes)
        post == _get_files(W1, workdir, workdir)
        W2 == [W1 EXCEPT !.cwd = W.cwd]
    IN  IF workdir \notin W.dirs
        THEN [W |-> W, ret |-> Raised("run", w, expected, "OSError") @@ [ran_in |-> {}]]
        ELSE IF exit = "oserror"
        THEN [W |-> W, ret |-> Raised("run", w, expected, "OSError")
                                   @@ [ran_in |-> {W0.cwd}]]
        ELSE IF exit # "0"
        THEN [W |-> W2, ret |-> Raised("run", w, expected, "RuntimeError")
                                    @@ [ran_in |-> {W0.cwd}]]
        ELSE [W |-> W2,
              ret |-> Returned("run", w, expected, pre, post,
                               _get_return_files(W1, workdir, pre, post, expected))
                          @@ [ran_in |-> {W0.cwd}]]

(***************************************************************************)
(* Workspace._find, qpwrap.py:490-499, and Image._guess_extension,         *)
(* qpwrap.py:22-37.                                                        *)
(***************************************************************************)
\* os.path.isfile(p) and os.access(p, os.X_OK); os.path.exists(p)
IsFile(W, p) == p \in DOMAIN W.files
IsExecutable(W, p) == W.files[p].kind = "program"
Exists(W, p) == p \in DOMAIN W.files \/ p \in W.dirs

\* the loop of _find taking a file whether it can be executed or not
RECURSIVE FindIn_any_file(_, _, _)
FindIn_any_file(W, path, cmd) ==
    IF path = <<>> THEN cmd
    ELSE LET ex == Join(Head(path), cmd)
         IN  IF IsFile(W, ex) THEN ex ELSE FindIn_any_file(W, Tail(path), cmd)

\* qpwrap.py:494-499: the directories of the path in their order
RECURSIVE FindIn(_, _, _)
FindIn(W, path, cmd) ==
    IF path = <<>> THEN cmd
    ELSE LET ex == Join(Head(path), cmd)
         IN  IF IsFile(W, ex) /\ IsExecutable(W, ex) THEN ex
             ELSE FindIn(W, Tail(path), cmd)

\* Workspace._find
_find(W, w, cmd) == FindIn(W, W.wsps[w].path, cmd)

\* qpwrap.py:30  exts, and "%s%s" % (self.ipath, ext)
Exts == <<"", ".nii", ".nii.gz">>
WithExt(ipath, ext) == IF ext = "" THEN ipath ELSE ipath \o <<ext>>

\* the extension an Image has before _guess_extension is called
DefaultExt == ".nii.gz"
NewImage(ipath) == [ipath |-> ipath, ext |-> DefaultExt, ext_matches |-> <<>>]

\* _guess_extension taking the last of the matching extensions
_guess_extension_last(W, img) ==
    LET Match(ext) == Exists(W, WithExt(img.ipath, ext))
        ext_matches == SelectSeq(Exts, Match)
    IN  [img EXCEPT !.ext_matches = ext_matches,
                    !.ext = IF ext_matches # <<>> THEN ext_matches[Len(ext_matches)] ELSE @]

\* Image._guess_extension, qpwrap.py:22-37
_guess_extension(W, img) ==
    LET Match(ext) == Exists(W, WithExt(img.ipath, ext))
        ext_matches == SelectSeq(Exts, Match)
    IN  [img EXCEPT !.ext_matches = ext_matches,
                    !.ext = IF ext_matches # <<>> THEN ext_matches[1] ELSE @]

(***************************************************************************)
(* The tool wrappers, qpwrap.py:267-414, and the conversion of their       *)
(* image argument and result, qpwrap.py:425-481.  An image argument is a   *)
(* file name, an Image, a Numpy array or something else.                   *)
(***************************************************************************)
FILENAME == 1
IMAGE == 2
NUMPY == 3

ImgArg(family, iname) == [family |-> family, iname |-> iname]
ImgArgs == {ImgArg(family, <<"a">>) : family \in {"path", "image", "array", "other"}}

NiiGz == ".nii.gz"
\* the files tempfile.NamedTemporaryFile and Image(..., save=True) create
\* for an array
TempImage == <<"fsltmp">>

\* Workspace._input_img, qpwrap.py:425-445
_input_img(W, w, img) ==
    IF img.family = "image" THEN [W |-> W, raised |-> "", iname |-> img.iname, itype |-> IMAGE]
    ELSE IF img.family = "path"
    THEN [W |-> W, raised |-> "", iname |-> img.iname, itype |-> FILENAME]
    ELSE IF img.family = "array"
    THEN [W |-> ProgramWrites(W, W.wsps[w].workdir,
                              {[name |-> TempImage, kind |-> "other"],
                               [name |-> TempImage \o <<NiiGz>>, kind |-> "image"]}),
          raised |-> "", iname |-> TempImage, itype |-> NUMPY]
    ELSE [W |-> W, raised |-> "TypeError", iname |-> <<>>, itype |-> ""]

\* Workspace._output_img, qpwrap.py:467-481: the image in file fname
_output_img(fname, itype) ==
    IF itype = IMAGE THEN [family |-> "image", of |-> fname]
    ELSE IF itype = FILENAME THEN [family |-> "path", of |-> fname]
    ELSE [family |-> "array", of |-> fname]

OutputImgs(imgs, itype) == [i \in DOMAIN imgs |-> _output_img(imgs[i], itype)]

Tools == {"bet", "fast", "flirt", "mcflirt", "maths", "apply_xfm", "fabber"}

\* the suffix each wrapper gives _get_std for the default output name
Suffix(tool) ==
    CASE tool = "bet" -> "_bet"
      [] tool = "fast" -> "_fast"
      [] tool = "flirt" -> "_reg"
      [] tool = "apply_xfm" -> "_reg"
      [] tool = "mcflirt" -> "_mc"
      [] tool = "maths" -> "_maths"
      [] tool = "fabber" -> "_fabber"

\* the expected argument each wrapper gives Workspace.run
Expected(tool, output_name) ==
    CASE tool = "bet" -> <<output_name, output_name \o <<"_mask">>>>
      [] tool = "fast" -> <<output_name \o <<"_seg">>>>
      [] tool = "fabber" -> <<output_name \o <<Sep, "finalMVN">>>>
      [] OTHER -> <<output_name>>

\* the image files the program of a wrapper may write
ToolOutputs(tool, output_name) ==
    {[name |-> exp \o <<NiiGz>>, kind |-> "image"] :
         exp \in {Expected(tool, output_name)[i] :
                      i \in DOMAIN Expected(tool, output_name)}}

\* what a wrapper hands back: the value itself, or a list or tuple of values
Unwrapped(items) == [container |-> "none", items |-> items]
AsList(items) == [container |-> "list", items |-> items]
AsTuple(items) == [container |-> "tuple", items |-> items]

\* the return statements of the wrappers: bet 282-285, flirt 354-363 (no
\* matrix asked for), the others imgs[0]
WrapperReturn(tool, ret) ==
    IF tool = "bet"
    THEN [raised |-> "", value |-> IF Len(ret) = 1 THEN Unwrapped(ret) ELSE AsTuple(ret)]
    ELSE IF ret = <<>> THEN [raised |-> "IndexError", value |-> Unwrapped(<<>>)]
    ELSE IF tool = "flirt" THEN [raised |-> "", value |-> AsList(<<ret[1]>>)]
    ELSE [raised |-> "", value |-> Unwrapped(<<ret[1]>>)]

\* what a wrapper sets on the workspace before it runs its program: maths
\* sets self.echo_enabled = True, qpwrap.py:410
SetByWrapper(W, w, tool) ==
    IF tool = "maths" THEN [W EXCEPT !.wsps[w].echo_enabled = TRUE] ELSE W

\* bet, fast, flirt, mcflirt, maths, apply_xfm and fabber, qpwrap.py:267-414
Wrapper(W, w, tool, img, exit, writes, tick) ==
    LET in == _input_img(W, w, img)
        output_name == in.iname \o <<Suffix(tool)>>
        expected == Expected(tool, output_name)
        r == Workspace_run(SetByWrapper(in.W, w, tool), w, expected, exit, writes, tick)
        back == WrapperReturn(tool, OutputImgs(r.ret.imgs, in.itype))
    IN  IF in.raised # ""
        THEN [W |-> W, ret |-> [Raised(tool, w, <<>>, in.raised) EXCEPT !.invoked = FALSE]
                                   @@ [img |-> img, value |-> Unwrapped(<<>>),
                                       ran_in |-> {}]]
        ELSE IF r.ret.raised # ""
        THEN [W |-> r.W, ret |-> [r.ret EXCEPT !.op = tool]
                                     @@ [img |-> img, value |-> Unwrapped(<<>>)]]
        ELSE [W |-> r.W, ret |-> [r.ret EXCEPT !.op = tool, !.raised = back.raised]
                                     @@ [img |-> img, value |-> back.value]]

(***************************************************************************)
(* Workspace.maths, qpwrap.py:401-414, with the arguments of its command   *)
(* line.  A string of arguments is a sequence of words, "" the empty one;  *)
(* the positional arguments *args are a tuple of such strings.             *)
(***************************************************************************)
\* Workspace._get_std, qpwrap.py:483-488
_get_std(iname, suffix, kwargs) ==
    [output_name |-> IF "output_name" \in DOMAIN kwargs THEN kwargs["output_name"]
                     ELSE iname \o <<suffix>>,
     args |-> IF "args" \in DOMAIN kwargs THEN kwargs["args"] ELSE <<>>]

\* "%s %s %s" % (img.ipath, args, output_name), qpwrap.py:412; args is by
\* then what _get_std returned (411), the parameter *args being rebound
CommandLine(ipath, args, kwargs) ==
    LET std == _get_std(ipath, Suffix("maths"), kwargs)
    IN  <<ipath, std.args, std.output_name>>

maths(W, w, img, args, kwargs, exit, writes, tick) ==
    LET r == Wrapper(W, w, "maths", img, exit, writes, tick)
        in == _input_img(W, w, img)
    IN  [r EXCEPT !.ret = @ @@ [args |-> args, kwargs |-> kwargs,
                                cmdline |-> IF in.raised # "" THEN <<>>
                                            ELSE CommandLine(in.iname, args, kwargs)]]

(***************************************************************************)
(* Workspace.fabber, qpwrap.py:287-315.  The values of an option mapping   *)
(* are values of Python: None, a boolean, a string (a sequence of parts,   *)
(* <<>> the empty string), an integer, a float (in tenths).                *)
(***************************************************************************)
PyNone == [none |-> "None"]
PyBool(b) == [bool |-> b]
PyStr(s) == [str |-> s]
PyInt(n) == [int |-> n]
PyFloat(tenths) == [float |-> tenths]

IsA(v, type) == DOMAIN v = {type}

\* v == "" and v == True as Python evaluates them: True equals 1 and 1.0
EqEmptyStr(v) == IsA(v, "str") /\ v.str = <<>>
EqTrue(v) ==
    \/ IsA(v, "bool") /\ v.bool
    \/ IsA(v, "int") /\ v.int = 1
    \/ IsA(v, "float") /\ v.float = 10

\* the truth value of v in  elif v:
Truthy(v) ==
    \/ IsA(v, "bool") /\ v.bool
    \/ IsA(v, "str") /\ v.str # <<>>
    \/ IsA(v, "int") /\ v.int # 0
    \/ IsA(v, "float") /\ v.float # 0

\* a flag without value, " --%s" % k
Bare == [bare |-> TRUE]

\* qpwrap.py:306-311: key |-> Bare for --key, key |-> v for --key=str(v)
RenderFlags(options) ==
    LET IsBare(k) == EqEmptyStr(options[k]) \/ EqTrue(options[k])
    IN  [k \in {x \in DOMAIN options : IsBare(x) \/ Truthy(options[x])} |->
             IF IsBare(k) THEN Bare ELSE options[k]]

\* the keys fabber sets itself
FixedKeys == {"data", "mask", "output", "save-mvn"}

\* qpwrap.py:299-305 with the caller's options taking precedence
FabberOptions_caller_first(options, data, mask, output_name, overwrite) ==
    LET o1 == options @@ [k \in FixedKeys |->
                             CASE k = "data" -> PyStr(data)
                               [] k = "mask" -> PyStr(mask)
                               [] k = "output" -> PyStr(output_name)
                               [] k = "save-mvn" -> PyStr(<<>>)]
    IN  IF overwrite THEN Put(o1, "overwrite", PyStr(<<>>)) ELSE o1

\* qpwrap.py:299-305: a copy of options with the fixed keys set
FabberOptions(options, data, mask, output_name, overwrite) ==
    LET o1 == Put(Put(Put(Put(options, "data", PyStr(data)),
                          "mask", PyStr(mask)),
                      "output", PyStr(output_name)),
                  "save-mvn", PyStr(<<>>))
    IN  IF overwrite THEN Put(o1, "overwrite", PyStr(<<>>)) ELSE o1

\* Workspace.fabber, qpwrap.py:287-315; options_after is the caller's
\* mapping after the call
fabber(W, w, img, mask, options, overwrite, exit, writes, tick) ==
    LET in == _input_img(W, w, img)
        mk == _input_img(in.W, w, mask)
        output_name == in.iname \o <<"_fabber">>
        opts == FabberOptions(options, in.iname, mk.iname, output_name, overwrite)
        expected == <<output_name \o <<Sep, "finalMVN">>>>
        r == Workspace_run(mk.W, w, expected, exit, writes, tick)
        call == [img |-> img, mask |-> mask, options |-> options,
                 options_after |-> options, flags |-> RenderFlags(opts)]
    IN  IF in.raised # "" \/ mk.raised # ""
        THEN [W |-> W,
              ret |-> [Raised("fabber", w, <<>>, "TypeError") EXCEPT !.invoked = FALSE]
                          @@ [ran_in |-> {}, value |-> Unwrapped(<<>>)] @@ call]
        ELSE IF r.ret.raised # ""
        THEN [W |-> r.W, ret |-> [r.ret EXCEPT !.op = "fabber"]
                                     @@ [value |-> Unwrapped(<<>>)] @@ call]
        ELSE IF r.ret.imgs = <<>>
        THEN [W |-> r.W, ret |-> [r.ret EXCEPT !.op = "fabber", !.raised = "IndexError"]
                                     @@ [value |-> Unwrapped(<<>>)] @@ call]
        ELSE [W |-> r.W,
              ret |-> [r.ret EXCEPT !.op = "fabber"]
                          @@ [value |-> Unwrapped(<<_output_img(r.ret.imgs[1], in.itype)>>)]
                          @@ call]

(***************************************************************************)
(* matrix_to_text and text_to_matrix, qpwrap.py:566-600.  A text is a      *)
(* sequence of characters; a float parsed from text is a rational          *)
(* num/den, a float of a matrix to serialize is given in tenths.           *)
(***************************************************************************)
NL == "\n"
DigitChars == <<"0", "1", "2", "3", "4", "5", "6", "7", "8", "9">>
IsDigit(c) == c \in Elements(DigitChars)
DigitValue(c) == (CHOOSE i \in DOMAIN DigitChars : DigitChars[i] = c) - 1

\* s split at every c, empty pieces kept
RECURSIVE SplitAt(_, _)
SplitAt(s, c) ==
    LET at == {i \in DOMAIN s : s[i] = c}
    IN  IF at = {} THEN <<s>>
        ELSE LET i == CHOOSE j \in at : \A k \in at : j <= k
             IN  <<SubSeq(s, 1, i - 1)>> \o SplitAt(SubSeq(s, i + 1, Len(s)), c)

\* text.splitlines(): no line for the end of the text after a line break
SplitLines(text) ==
    LET pieces == SplitAt(text, NL)
    IN  IF pieces[Len(pieces)] = <<>> THEN SubSeq(pieces, 1, Len(pieces) - 1)
        ELSE pieces

\* line.split("#", 1)[0].strip()
RECURSIVE Strip(_)
Strip(s) ==
    IF s = <<>> THEN s
    ELSE IF Head(s) = " " THEN Strip(Tail(s))
    ELSE IF s[Len(s)] = " " THEN Strip(SubSeq(s, 1, Len(s) - 1))
    ELSE s
DiscardComment(line) == Strip(SplitAt(line, "#")[1])

\* line.replace(",", " ").split()
Vals(line) ==
    LET spaced == [i \in DOMAIN line |-> IF line[i] = "," THEN " " ELSE line[i]]
        NotEmpty(piece) == piece # <<>>
    IN  SelectSeq(SplitAt(spaced, " "), NotEmpty)

\* float(val) succeeds: an optional sign, digits with at most one point
\* among them, at least one digit
Unsigned(val) == IF val # <<>> /\ Head(val) \in {"-", "+"} THEN Tail(val) ELSE val
IsFloat(val) ==
    LET body == Unsigned(val)
    IN  /\ \A i \in DOMAIN body : IsDigit(body[i]) \/ body[i] = "."
        /\ \E i \in DOMAIN body : IsDigit(body[i])
        /\ Cardinality({i \in DOMAIN body : body[i] = "."}) <= 1

RECURSIVE DigitsValue(_)
DigitsValue(ds) ==
    IF ds = <<>> THEN 0
    ELSE 10 * DigitsValue(SubSeq(ds, 1, Len(ds) - 1)) + DigitValue(ds[Len(ds)])

RECURSIVE Pow10(_)
Pow10(n) == IF n = 0 THEN 1 ELSE 10 * Pow10(n - 1)

\* float(val)
FloatOf(val) ==
    LET body == Unsigned(val)
        points == {i \in DOMAIN body : body[i] = "."}
        decimals == IF points = {} THEN 0 ELSE Len(body) - (CHOOSE i \in points : TRUE)
        magnitude == DigitsValue(SelectSeq(body, IsDigit))
    IN  Rat(IF val # <<>> /\ Head(val) = "-" THEN 0 - magnitude ELSE magnitude,
            Pow10(decimals))

ValueError == [raised |-> "ValueError", value |-> <<>>]

\* the loop of text_to_matrix without the check of the number of columns
RECURSIVE ParseLines_no_column_check(_, _, _)
ParseLines_no_column_check(lines, ncols, fvals) ==
    IF lines = <<>> THEN [raised |-> "", value |-> fvals]
    ELSE LET vals == Vals(DiscardComment(Head(lines)))
         IN  IF vals = <<>> THEN ParseLines_no_column_check(Tail(lines), ncols, fvals)
             ELSE IF \E i \in DOMAIN vals : ~IsFloat(vals[i]) THEN ValueError
             ELSE ParseLines_no_column_check(
                      Tail(lines), Len(vals),
                      Append(fvals, [i \in DOMAIN vals |-> FloatOf(vals[i])]))

\* qpwrap.py:582-599: the loop over the lines
RECURSIVE ParseLines(_, _, _)
ParseLines(lines, ncols, fvals) ==
    IF lines = <<>> THEN [raised |-> "", value |-> fvals]
    ELSE LET vals == Vals(DiscardComment(Head(lines)))
         IN  IF vals = <<>> THEN ParseLines(Tail(lines), ncols, fvals)
             ELSE IF ncols >= 0 /\ Len(vals) # ncols THEN ValueError
             ELSE IF \E i \in DOMAIN vals : ~IsFloat(vals[i]) THEN ValueError
             ELSE ParseLines(Tail(lines), Len(vals),
                             Append(fvals, [i \in DOMAIN vals |-> FloatOf(vals[i])]))

\* text_to_matrix, qpwrap.py:575-600
text_to_matrix(text) == ParseLines(SplitLines(text), 0 - 1, <<>>)

\* the digits of a natural number
RECURSIVE DigitsOf(_)
DigitsOf(n) ==
    IF n < 10 THEN <<DigitChars[n + 1]>>
    ELSE DigitsOf(n \div 10) \o <<DigitChars[(n % 10) + 1]>>

\* str(v) leaving out the sign
StrFloat_unsigned(v) ==
    LET a == IF v < 0 THEN 0 - v ELSE v
    IN  DigitsOf(a \div 10) \o <<".">> \o DigitsOf(a % 10)

\* str(v) of a float of v tenths: "-1.5", "0.0", "12.0"
StrFloat(v) ==
    LET a == IF v < 0 THEN 0 - v ELSE v
    IN  (IF v < 0 THEN <<"-">> ELSE <<>>)
            \o DigitsOf(a \div 10) \o <<".">> \o DigitsOf(a % 10)

\* sep.join(pieces)
RECURSIVE JoinWith(_, _)
JoinWith(pieces, sep) ==
    IF pieces = <<>> THEN <<>>
    ELSE IF Len(pieces) = 1 THEN pieces[1]
    ELSE pieces[1] \o <<sep>> \o JoinWith(Tail(pieces), sep)

\* matrix_to_text, qpwrap.py:566-573
matrix_to_text(mat) ==
    JoinWith([r \in DOMAIN mat |->
                  JoinWith([c \in DOMAIN mat[r] |-> StrFloat(mat[r][c])], " ")],
             NL)

(***************************************************************************)
(* The state after BasilProcess.__init__, process.py:113-124.              *)
(***************************************************************************)
Event(kind, inv, arg) ==
    [kind |-> kind, inv |-> inv, arg |-> arg, was_running |-> (status = RUNNING)]

InitProcess ==
    /\ status = PENDING
    /\ steps = <<>>
    /\ step_num = 0
    /\ log = <<>>
    /\ ivm_data \in {{"asldata_raw", "T1map"}, {"asldata_raw", "T1map", "finalMVN"}}
    /\ inflight = {}
    /\ cancel_req = {}
    /\ last_done = {}
    /\ executed = <<>>
    /\ sig_step = <<>>
    /\ sig_finished = <<>>
    /\ sig_progress = <<>>
    /\ progress_hist = <<>>
    /\ nruns = 0
    /\ ev = [kind |-> "init", inv |-> NoInv, arg |-> "", was_running |-> FALSE]
    /\ ivm_rois = {"wm_roi"}
    /\ extras = {}
    /\ struc = {}
    /\ basil_options = {}
    /\ run_options = {}
    /\ run_result = ""
    /\ extras_out = {}
    /\ macro = MacroProcess_init
    /\ script = Script_init

\* no workspace yet, nothing in the file system, no call made
InitWorld ==
    /\ wsps = <<>>
    /\ fs_dirs = {}
    /\ fs_files = NoFiles
    /\ now = 0
    /\ cwd = StartDir
    /\ ncalls = 0
    /\ wcall = NoCall

Init == InitProcess /\ InitWorld

InFlightIds == {inv.id : inv \in inflight}

(***************************************************************************)
(* Actions.                                                                *)
(***************************************************************************)
\* the caller calls run(options)
Run(options, new_steps) ==
    /\ nruns < MaxRuns
    /\ Assign(run([Self EXCEPT !.sig_progress = <<>>], options, new_steps))
    /\ run_options' = {options}
    /\ progress_hist' = IF run_result' = "ok" THEN <<>> ELSE progress_hist
    /\ last_done' = IF run_result' = "ok" THEN {} ELSE last_done
    /\ ev' = Event("run", NoInv, run_result')
    /\ UNCHANGED <<cancel_req>>
    /\ UNCHANGED <<macro, script>>
    /\ UNCHANGED wspvars

\* the caller calls cancel(): process.py:181-182, forwarded to the fabber
\* process, which notes the request for the invocations in flight
Cancel ==
    /\ InFlightIds \ cancel_req # {}
    /\ cancel_req' = cancel_req \cup InFlightIds
    /\ Assign(cancel([Self EXCEPT !.sig_progress = <<>>]))
    /\ ev' = Event("cancel", NoInv, "")
    /\ UNCHANGED <<last_done, progress_hist, run_options>>
    /\ UNCHANGED <<macro, script>>
    /\ UNCHANGED wspvars

\* invocation inv ends and the fabber process emits its sig_finished; an
\* invocation that was asked to save the MVN and succeeded has put finalMVN
\* into the data store; only a cancelled invocation reports CANCELLED
FabberFinished(inv, st) ==
    /\ inv \in inflight
    /\ st = CANCELLED => inv.id \in cancel_req
    /\ cancel_req' = cancel_req \ {inv.id}
    /\ last_done' = {inv}
    /\ LET saved == IF st = SUCCEEDED /\ "save-mvn" \in DOMAIN inv.options
                    THEN {"finalMVN"} ELSE {}
           s0 == [Self EXCEPT !.ivm_data = @ \cup saved,
                              !.inflight = @ \ {inv},
                              !.sig_progress = <<>>]
           exception == IF st = SUCCEEDED THEN NoException ELSE "FabberError"
       IN  Assign(_fabber_finished(s0, st, FabberLog(inv.id), exception))
    /\ ev' = Event("finished", inv.id, st)
    /\ UNCHANGED <<progress_hist, run_options>>
    /\ UNCHANGED <<macro, script>>
    /\ UNCHANGED wspvars

\* the fabber process emits sig_progress for invocation inv, which is in
\* flight or has just completed (a queued signal delivered late)
ProgressCallback(inv, complete) ==
    /\ inv \in inflight \cup last_done
    /\ Assign(_fabber_progress([Self EXCEPT !.sig_progress = <<>>], complete))
    /\ ev' = Event("progress", inv.id, "")
    /\ UNCHANGED <<cancel_req, last_done, run_options>>
    /\ UNCHANGED <<macro, script>>
    /\ UNCHANGED wspvars

FabberProgress(inv, complete) ==
    /\ ProgressCallback(inv, complete)
    /\ UNCHANGED progress_hist

Next ==
    \/ \E options \in BasicRunOptions, new_steps \in AllStepLists :
           Run(options, new_steps)
    \/ Cancel
    \/ \E inv \in inflight, st \in CompletionStatus : FabberFinished(inv, st)
    \/ \E inv \in inflight \cup last_done, complete \in Fractions :
           FabberProgress(inv, complete)

Spec == Init /\ [][Next]_vars

(***************************************************************************)
(* One run of a fresh BasilProcess with its progress reports recorded:     *)
(* run() is called once, and what one invocation reports never decreases.  *)
(***************************************************************************)
RunOnce(options, new_steps) ==
    /\ nruns = 0
    /\ Run(options, new_steps)

Reported(inv) ==
    {Level(progress_hist[i].complete) :
         i \in {j \in 1..Len(progress_hist) : progress_hist[j].inv = inv.id}}

FabberProgressLogged(inv, complete) ==
    /\ Len(progress_hist) < MaxProgress
    /\ \A l \in Reported(inv) : l <= Level(complete)
    /\ ProgressCallback(inv, complete)
    /\ progress_hist' =
           Append(progress_hist,
                  [inv |-> inv.id, complete |-> complete,
                   late |-> (inv \notin inflight),
                   emitted |-> sig_progress'])

NextOneRun ==
    \/ \E options \in BasicRunOptions, new_steps \in AllStepLists :
           RunOnce(options, new_steps)
    \/ Cancel
    \/ \E inv \in inflight, st \in CompletionStatus : FabberFinished(inv, st)
    \/ \E inv \in inflight \cup last_done, complete \in Fractions :
           FabberProgressLogged(inv, complete)

SpecOneRun == Init /\ [][NextOneRun]_vars

(***************************************************************************)
(* The runs of a BasilProcess whose fabber process delivers the completion *)
(* callback of every invocation it was given: an invocation in flight      *)
(* completes at last, with one of the three statuses, and is then no       *)
(* longer in flight.                                                       *)
(***************************************************************************)
Completion == \E inv \in inflight, st \in CompletionStatus : FabberFinished(inv, st)

\* what the progress callbacks of these runs report
LiveFractions == {Float(1, 2), Float(1, 1)}

\* run() is called on a process none of whose invocations is in flight
RunAgain(options, new_steps) ==
    /\ inflight = {}
    /\ Run(options, new_steps)

NextLive ==
    \/ \E options \in BasicRunOptions, new_steps \in AllStepLists :
           RunAgain(options, new_steps)
    \/ Cancel
    \/ Completion
    \/ \E inv \in inflight \cup last_done, complete \in LiveFractions :
           FabberProgress(inv, complete)

SpecLive == Init /\ [][NextLive]_vars /\ WF_vars(Completion)

(***************************************************************************)
(* One run of a fresh BasilProcess over every acquisition structure and    *)
(* image option: run() is called until it does not raise, and the run      *)
(* then goes on as in SpecOneRun.                                          *)
(***************************************************************************)
\* the first call of run() is made with any options, a call after run()
\* raised with the basic ones or with a structure that gives no delays
BuildOptions ==
    IF run_options = {} THEN AllRunOptions
    ELSE BasicRunOptions \cup {RunOptions({FALSE}, {}, {}, {}, {})}

NextBuild ==
    \/ \E options \in BuildOptions, new_steps \in AllStepLists :
           RunOnce(options, new_steps)
    \/ Cancel
    \/ \E inv \in inflight, st \in CompletionStatus : FabberFinished(inv, st)
    \/ \E inv \in inflight \cup last_done, complete \in Fractions :
           FabberProgress(inv, complete)

SpecBuild == Init /\ [][NextBuild]_vars

(***************************************************************************)
(* AslPreprocProcess.run called on a data store that holds the ASL data,   *)
(* over every acquisition structure and every choice of operations.        *)
(***************************************************************************)
PreprocChoices ==
    {Opt("diff", diff) @@ Opt("reorder", reorder) @@ Opt("mean", mean)
         @@ Opt("output-name", name) :
         diff \in {{}, {TRUE}, {FALSE}}, reorder \in {{}, {"rt"}},
         mean \in {{}, {TRUE}, {FALSE}}, name \in {{}, {"T1map"}}}

\* the first call is made with any structure and any choice, a later one
\* with a pulsed acquisition with one delay
PreprocOptions ==
    {RunOptions(casl, taus, tis, plds, {}) @@ c :
         casl \in IF run_options = {} THEN CaslChoices ELSE {{FALSE}},
         taus \in IF run_options = {} THEN TausChoices ELSE {{}},
         tis \in IF run_options = {} THEN TisChoices ELSE {{<<10>>}},
         plds \in IF run_options = {} THEN PldsChoices ELSE {{}},
         c \in PreprocChoices}

\* the caller calls AslPreprocProcess.run(options); nruns counts the calls
Preproc(options) ==
    /\ nruns < MaxRuns
    /\ Assign([AslPreprocProcess_run([Self EXCEPT !.sig_progress = <<>>], options)
                   EXCEPT !.run = @ + 1])
    /\ run_options' = {options}
    /\ ev' = Event("preproc", NoInv, run_result')
    /\ UNCHANGED <<cancel_req, last_done, progress_hist>>
    /\ UNCHANGED <<macro, script>>
    /\ UNCHANGED wspvars

NextPreproc == \E options \in PreprocOptions : Preproc(options)

SpecPreproc == Init /\ [][NextPreproc]_vars

(***************************************************************************)
(* A MacroProcess run on scripts of one process or more.                   *)
(***************************************************************************)
MacroEvent(kind, arg) ==
    [kind |-> kind, inv |-> NoInv, arg |-> arg,
     was_running |-> (macro.status = RUNNING)]

\* the caller calls run() on a MacroProcess whose script is not running;
\* the script has n processes
MacroRun(n) ==
    /\ script.finished /\ script.runs < MaxRuns
    /\ macro' = MacroProcess_run([macro EXCEPT !.sig_finished = <<>>,
                                               !.sig_progress = <<>>])
    /\ script' = [n |-> n, started |-> 0, done |-> 0, failed |-> FALSE,
                  finished |-> FALSE, runs |-> script.runs + 1]
    /\ ev' = MacroEvent("macro_run", "")
    /\ UNCHANGED basilvars
    /\ UNCHANGED wspvars

\* the script starts its next process and emits sig_start_process
StartProcess ==
    /\ ~script.finished
    /\ script.started = script.done /\ script.done < script.n
    /\ script' = [script EXCEPT !.started = @ + 1]
    /\ macro' = MacroProcess_start_process([macro EXCEPT !.sig_progress = <<>>],
                                           script.started + 1)
    /\ ev' = MacroEvent("start_process", "")
    /\ UNCHANGED basilvars
    /\ UNCHANGED wspvars

\* the process the script is running ends with status st and the script
\* emits sig_done_process
DoneProcess(st) ==
    /\ ~script.finished
    /\ script.started > script.done
    /\ script' = [script EXCEPT !.done = @ + 1,
                                !.failed = @ \/ st # SUCCEEDED]
    /\ macro' = MacroProcess_done_process(
                     [macro EXCEPT !.sig_progress = <<>>], script.started, st,
                     IF st = SUCCEEDED THEN NoException ELSE "ProcessError")
    /\ ev' = MacroEvent("done_process", st)
    /\ UNCHANGED basilvars
    /\ UNCHANGED wspvars

\* the script forwards the progress of the process it is running
MacroProgress(complete) ==
    /\ ~script.finished
    /\ script.started > script.done
    /\ macro' = MacroProcess_progress([macro EXCEPT !.sig_progress = <<>>], complete)
    /\ ev' = MacroEvent("macro_progress", "")
    /\ UNCHANGED script
    /\ UNCHANGED basilvars
    /\ UNCHANGED wspvars

\* the script has run its processes, or gives up after one that did not
\* succeed, and emits sig_finished
ScriptFinished ==
    /\ ~script.finished
    /\ script.started = script.done
    /\ script.done = script.n \/ script.failed
    /\ script' = [script EXCEPT !.finished = TRUE]
    /\ macro' = MacroProcess_done_script([macro EXCEPT !.sig_progress = <<>>])
    /\ ev' = MacroEvent("done_script", "")
    /\ UNCHANGED basilvars
    /\ UNCHANGED wspvars

NextMacro ==
    \/ \E n \in 1..MaxProcs : MacroRun(n)
    \/ StartProcess
    \/ \E st \in CompletionStatus : DoneProcess(st)
    \/ \E complete \in Fractions : MacroProgress(complete)
    \/ ScriptFinished

SpecMacro == Init /\ [][NextMacro]_vars

(***************************************************************************)
(* The workspaces: created on a temporary or on a given directory, used    *)
(* to run a program that writes nothing, and released.                     *)
(***************************************************************************)
Live(w) == ~wsps[w].released

\* the images given to a new workspace: none, or the image a
ImgsChoices == {<<>>, <<<<"a">>>>}

\* Workspace(imgs=imgs) and Workspace(workdir, imgs=imgs)
NewWorkspace(workdir, imgs) ==
    /\ Len(wsps) < MaxWorkspaces
    /\ AssignWorld(Workspace_init(World, workdir, imgs, DefaultConfig))
    /\ UNCHANGED <<ncalls, wcall>>
    /\ UNCHANGED procvars

\* wsp.sub(name)
SubWorkspace(w) ==
    /\ Len(wsps) < MaxWorkspaces
    /\ Live(w)
    /\ AssignWorld(sub(World, w, SubName, <<>>))
    /\ UNCHANGED <<ncalls, wcall>>
    /\ UNCHANGED procvars

\* the last reference to the workspace goes and __del__ is called
Release(w) ==
    /\ Live(w)
    /\ AssignWorld(Workspace_del(World, w))
    /\ UNCHANGED <<ncalls, wcall>>
    /\ UNCHANGED procvars

\* what a program may do: not start, or write files and exit with status
\* 0 or 1; the clock may have moved on or not
ExitStatus == {"0", "1"}
Outcomes(candidates, ticks) ==
    {[exit |-> "oserror", writes |-> {}, tick |-> 0]}
        \cup {[exit |-> e, writes |-> ws, tick |-> k] :
                  e \in ExitStatus, k \in ticks,
                  ws \in {s \in SUBSET candidates :
                              \A x, y \in s : x.name = y.name => x = y}}

\* the files a program run through Workspace.run may write, and the
\* expected arguments given
RunWrites ==
    {[name |-> <<"a">>, kind |-> "image"], [name |-> <<"b">>, kind |-> "text"]}
RunExpected == {<<>>, <<<<"a">>>>, <<<<"b">>>>}

\* wsp.run(prog, args, expected)
RunProgram(w, expected, out) ==
    /\ ncalls < MaxCalls
    /\ Live(w)
    /\ LET r == Workspace_run(World, w, expected, out.exit, out.writes, out.tick)
       IN  AssignWorld(r.W) /\ wcall' = r.ret @@ [exit |-> out.exit]
    /\ ncalls' = ncalls + 1
    /\ UNCHANGED procvars

\* wsp.bet(img), wsp.fast(img), wsp.flirt(img, ref), ...
ToolCall(w, tool, img, out) ==
    /\ ncalls < MaxCalls
    /\ Live(w)
    /\ LET r == Wrapper(World, w, tool, img, out.exit, out.writes, out.tick)
       IN  AssignWorld(r.W) /\ wcall' = r.ret @@ [exit |-> out.exit]
    /\ ncalls' = ncalls + 1
    /\ UNCHANGED procvars

NextWorkspace ==
    \/ \E workdir \in {{}, {GivenDir}}, imgs \in ImgsChoices :
           NewWorkspace(workdir, imgs)
    \/ \E w \in DOMAIN wsps : SubWorkspace(w)
    \/ \E w \in DOMAIN wsps : Release(w)
    \/ \E w \in DOMAIN wsps, out \in Outcomes({}, {0}) : RunProgram(w, <<>>, out)

\* the workspaces are used with one state of the BasilProcess
InitWorkspace == Init /\ ivm_data = {"asldata_raw", "T1map"}

SpecWorkspace == InitWorkspace /\ [][NextWorkspace]_vars

(***************************************************************************)
(* Programs run through Workspace.run on one workspace.                    *)
(***************************************************************************)
FirstWorkspace(workdir, imgs) ==
    /\ wsps = <<>>
    /\ NewWorkspace(workdir, imgs)

NextRun ==
    \/ \E workdir \in {{}, {GivenDir}}, imgs \in ImgsChoices :
           FirstWorkspace(workdir, imgs)
    \/ \E w \in DOMAIN wsps : Release(w)
    \/ \E w \in DOMAIN wsps, expected \in RunExpected :
           \E out \in Outcomes(RunWrites, {0, 1}) : RunProgram(w, expected, out)

SpecRun == InitWorkspace /\ [][NextRun]_vars

(***************************************************************************)
(* Programs that write into subdirectories of the working directory, and   *)
(* files that are neither images nor text.                                 *)
(***************************************************************************)
CollectWrites ==
    {[name |-> <<"b">>, kind |-> "text"],
     [name |-> <<"d1", Sep, "b">>, kind |-> "text"],
     [name |-> <<"d2", Sep, "b">>, kind |-> "text"],
     [name |-> <<"d1", Sep, "e", Sep, "c">>, kind |-> "image"],
     [name |-> <<"u">>, kind |-> "other"]}
CollectExpected == {<<>>, <<<<"d1">>>>}

NextCollect ==
    \/ \E workdir \in {{}, {GivenDir}}, imgs \in ImgsChoices :
           FirstWorkspace(workdir, imgs)
    \/ \E w \in DOMAIN wsps, expected \in CollectExpected :
           \E out \in Outcomes(CollectWrites, {1}) : RunProgram(w, expected, out)

SpecCollect == InitWorkspace /\ [][NextCollect]_vars

(***************************************************************************)
(* Programs and image files that are there before the process starts: a    *)
(* program is looked up on the search path of a workspace, and the         *)
(* extension of an image given by its name without one is guessed.         *)
(***************************************************************************)
\* the program looked up, and the image given without extension
Cmd == <<"prog">>
IPath == Join(StartDir, <<"name">>)

\* what is at <dir>/prog for each directory of the path: nothing, a file
\* that can be executed, a file that cannot, a directory
Installed == [Elements(DefaultPath) -> {"absent", "program", "text", "dir"}]

FilesAt(inst, exts) ==
    LET progs == {Join(d, Cmd) : d \in {e \in DOMAIN inst : inst[e] \in {"program", "text"}}}
        images == {WithExt(IPath, e) : e \in exts}
    IN  [f \in progs \cup images |->
            [mtime |-> 0,
             kind |-> IF f \in images THEN "image"
                      ELSE inst[CHOOSE d \in DOMAIN inst : Join(d, Cmd) = f]]]

DirsAt(inst) ==
    LET ds == (DOMAIN inst) \cup {StartDir}
                  \cup {Join(d, Cmd) : d \in {e \in DOMAIN inst : inst[e] = "dir"}}
    IN  ds \cup UNION {ParentDirs(d) : d \in ds}

InitFiles ==
    /\ InitProcess /\ ivm_data = {"asldata_raw", "T1map"}
    /\ wsps = <<>>
    /\ \E inst \in Installed, exts \in SUBSET Elements(Exts) :
           fs_files = FilesAt(inst, exts) /\ fs_dirs = DirsAt(inst)
    /\ now = 0
    /\ cwd = StartDir
    /\ ncalls = 0
    /\ wcall = NoCall

\* wsp._find(cmd)
Find(w, cmd) ==
    /\ ncalls < MaxCalls
    /\ Live(w)
    /\ wcall' = [op |-> "_find", w |-> w, cmd |-> cmd, value |-> _find(World, w, cmd)]
    /\ ncalls' = ncalls + 1
    /\ UNCHANGED <<wsps, fs_dirs, fs_files, now, cwd>>
    /\ UNCHANGED procvars

\* Image(ipath) for a name given without extension
GuessExtension(ipath) ==
    /\ ncalls < MaxCalls
    /\ wcall' = [op |-> "_guess_extension",
                 img |-> _guess_extension(World, NewImage(ipath))]
    /\ ncalls' = ncalls + 1
    /\ UNCHANGED <<wsps, fs_dirs, fs_files, now, cwd>>
    /\ UNCHANGED procvars

NextFiles ==
    \/ FirstWorkspace({}, <<>>)
    \/ \E w \in DOMAIN wsps : Find(w, Cmd)
    \/ GuessExtension(IPath)

SpecFiles == InitFiles /\ [][NextFiles]_vars

(***************************************************************************)
(* Workspace.fabber called on one workspace with every kind of option      *)
(* value, with and without options under the keys fabber sets itself.      *)
(***************************************************************************)
OptionValues ==
    {PyNone, PyBool(TRUE), PyBool(FALSE), PyStr(<<>>), PyStr(<<"abc">>),
     PyInt(0), PyInt(1), PyInt(2), PyFloat(10), PyFloat(25)}

\* what a caller may give under the keys fabber sets itself
CallerFixed ==
    [k \in FixedKeys |-> IF k = "save-mvn" THEN PyBool(FALSE) ELSE PyStr(<<"mine">>)]

FabberCallOptions ==
    {[k \in {"opt"} |-> v] : v \in OptionValues} \cup {EmptyDict, CallerFixed}

FabberImgs == {ImgArg(family, <<"a">>) : family \in {"path", "image"}}
FabberMask == ImgArg("image", <<"m">>)

\* wsp.fabber(model_group, img, mask, options, overwrite)
FabberCall(w, img, options, overwrite, out) ==
    /\ ncalls < MaxCalls
    /\ Live(w)
    /\ LET r == fabber(World, w, img, FabberMask, options, overwrite,
                       out.exit, out.writes, out.tick)
       IN  AssignWorld(r.W) /\ wcall' = r.ret @@ [exit |-> out.exit]
    /\ ncalls' = ncalls + 1
    /\ UNCHANGED procvars

NextFabber ==
    \/ \E workdir \in {{}, {GivenDir}} : FirstWorkspace(workdir, <<>>)
    \/ \E w \in DOMAIN wsps, img \in FabberImgs, options \in FabberCallOptions,
          overwrite \in BOOLEAN :
           \E out \in Outcomes(ToolOutputs("fabber", img.iname \o <<"_fabber">>), {1}) :
               FabberCall(w, img, options, overwrite, out)

SpecFabber == InitWorkspace /\ [][NextFabber]_vars

(***************************************************************************)
(* Matrix texts parsed, and matrices serialized and parsed again.  The     *)
(* text or the matrix given is drawn at the start.                         *)
(***************************************************************************)
TextChars == {"1", "x", ",", " ", "#", NL}
Texts == UNION {[1..n -> TextChars] : n \in 0..MaxText}

\* floats in tenths: -1.5, 0.0, 12.0
MatrixValues == {0 - 15, 0, 120}
Matrices == UNION {[1..r -> [1..c -> MatrixValues]] : r \in 1..MaxDim, c \in 1..MaxDim}

InitMatrix ==
    /\ InitProcess /\ ivm_data = {"asldata_raw", "T1map"}
    /\ wsps = <<>>
    /\ fs_dirs = {}
    /\ fs_files = NoFiles
    /\ now = 0
    /\ cwd = StartDir
    /\ ncalls = 0
    /\ wcall \in {[op |-> "text", text |-> text] : text \in Texts}
                  \cup {[op |-> "matrix", mat |-> mat] : mat \in Matrices}

\* text_to_matrix(text)
TextToMatrix ==
    /\ wcall.op = "text"
    /\ LET r == text_to_matrix(wcall.text)
       IN  wcall' = [op |-> "text_to_matrix", text |-> wcall.text,
                     raised |-> r.raised, value |-> r.value]
    /\ UNCHANGED <<wsps, fs_dirs, fs_files, now, cwd, ncalls>>
    /\ UNCHANGED procvars

\* text_to_matrix(matrix_to_text(mat))
RoundTrip ==
    /\ wcall.op = "matrix"
    /\ LET text == matrix_to_text(wcall.mat)
           r == text_to_matrix(text)
       IN  wcall' = [op |-> "round_trip", mat |-> wcall.mat, text |-> text,
                     raised |-> r.raised, value |-> r.value]
    /\ UNCHANGED <<wsps, fs_dirs, fs_files, now, cwd, ncalls>>
    /\ UNCHANGED procvars

NextMatrix == TextToMatrix \/ RoundTrip

SpecMatrix == InitMatrix /\ [][NextMatrix]_vars

(***************************************************************************)
(* The tool wrappers called on one workspace.                              *)
(***************************************************************************)
\* the name of the file Image gives a program for the argument img
InputName(img) == IF img.family = "array" THEN TempImage ELSE img.iname

NextTools ==
    \/ \E workdir \in {{}, {GivenDir}} : FirstWorkspace(workdir, <<>>)
    \/ \E w \in DOMAIN wsps : Release(w)
    \/ \E w \in DOMAIN wsps, tool \in Tools, img \in ImgArgs :
           \E out \in Outcomes(ToolOutputs(tool, InputName(img) \o <<Suffix(tool)>>), {1}) :
               ToolCall(w, tool, img, out)

SpecTools == InitWorkspace /\ [][NextTools]_vars

(***************************************************************************)
(* maths called on one workspace, with arguments for fslmaths given        *)
(* positionally, by the keyword args, both ways or not at all.             *)
(***************************************************************************)
\* the tuple *args of the call
PositionalArgs == {<<>>, <<<<"-mul", "2">>>>}
\* the keyword arguments **kwargs of the call
KeywordArgs == {EmptyDict, [args |-> <<"-uthr", "7">>]}

\* wsp.maths(img, *args, **kwargs)
MathsCall(w, img, args, kwargs, out) ==
    /\ ncalls < MaxCalls
    /\ Live(w)
    /\ LET r == maths(World, w, img, args, kwargs, out.exit, out.writes, out.tick)
       IN  AssignWorld(r.W) /\ wcall' = r.ret @@ [exit |-> out.exit]
    /\ ncalls' = ncalls + 1
    /\ UNCHANGED procvars

NextMaths ==
    \/ \E workdir \in {{}, {GivenDir}} : FirstWorkspace(workdir, <<>>)
    \/ \E w \in DOMAIN wsps : Release(w)
    \/ \E w \in DOMAIN wsps, img \in ImgArgs, args \in PositionalArgs,
          kwargs \in KeywordArgs :
           \E out \in Outcomes(ToolOutputs("maths", InputName(img) \o <<Suffix("maths")>>), {1}) :
               MathsCall(w, img, args, kwargs, out)

SpecMaths == InitWorkspace /\ [][NextMaths]_vars

(***************************************************************************)
(* Properties.                                                             *)
(***************************************************************************)
Last(seq) == seq[Len(seq)]

\* the event just handled is a completion callback / a progress callback
IsFinished(e) == e.kind = "finished"
IsProgress(e) == e.kind = "progress"

SummaryKeys == {"save-mean", "save-std", "save-model-fit"}

\* C1: in one run of a fresh process the invocations are dispatched in list
\* index order 0..N-1, one at a time; the first by run(), every later one by
\* the completion callback of the invocation dispatched before it, reporting
\* SUCCEEDED; and when the run succeeds exactly N have been dispatched.
C1_InOrder ==
    [][/\ \A j \in 1..Len(executed') : executed'[j].id = InvId(nruns', j - 1)
       /\ (executed' # executed /\ ev'.kind # "run") =>
              /\ IsFinished(ev') /\ ev'.arg = SUCCEEDED
              /\ Len(executed) >= 1
              /\ ev'.inv = Last(executed).id
              /\ executed' = Append(executed, Last(executed'))
       /\ ev'.kind = "run" => Len(executed') <= 1
       /\ (status = RUNNING /\ status' = SUCCEEDED /\ ev'.kind # "run") =>
              Len(executed') = Len(steps)
       /\ status' = RUNNING => Len(executed') <= Len(steps')]_vars

C1_Witness ==
    /\ status = SUCCEEDED
    /\ Len(executed) = MaxSteps
    /\ IsFinished(ev) /\ ev.arg = SUCCEEDED /\ ev.was_running

\* C2: once the status is other than RUNNING, a completion callback or a
\* progress callback changes neither status, step index, step list nor log,
\* dispatches nothing and emits neither sig_progress nor sig_finished.
C2_TerminalSticky ==
    [][(status # RUNNING /\ (IsFinished(ev') \/ IsProgress(ev'))) =>
           /\ UNCHANGED <<status, step_num, steps, log, executed, sig_step,
                          sig_finished>>
           /\ inflight' \subseteq inflight
           /\ sig_progress' = <<>>]_vars

C2_Witness ==
    /\ IsFinished(ev) /\ ~ev.was_running
    /\ status \in {FAILED, CANCELLED}
    /\ Len(sig_finished) = 1

\* C3: a completion callback that reports a status other than SUCCEEDED while
\* the status is RUNNING sets the status to the reported one and appends the
\* invocation's log and the annotation to the log; it dispatches nothing, and
\* nothing is dispatched afterwards until run() is called again.
C3_FailureStops ==
    [][/\ (status = RUNNING /\ IsFinished(ev') /\ ev'.arg # SUCCEEDED) =>
              /\ status' = ev'.arg
              /\ log' = log \o <<FabberLog(ev'.inv), CancelledLog>>
              /\ executed' = executed
       /\ (status \in {FAILED, CANCELLED} /\ ev'.kind # "run") =>
              /\ executed' = executed
              /\ status' = status]_vars

C3_Witness ==
    /\ IsFinished(ev) /\ ev.was_running /\ ev.arg = CANCELLED
    /\ status = CANCELLED
    /\ Len(executed) < Len(steps)

\* C4: a completion callback that reports SUCCEEDED while the last step of
\* the list is the one in flight sets the status to SUCCEEDED and emits
\* sig_finished in a state whose data store holds no finalMVN.
C4_SuccessDropsMVN ==
    [][(status = RUNNING /\ IsFinished(ev') /\ ev'.arg = SUCCEEDED
            /\ step_num = Len(steps)) =>
           /\ status' = SUCCEEDED
           /\ sig_finished' = Append(sig_finished, Last(sig_finished'))
           /\ Last(sig_finished').status = SUCCEEDED
           /\ "finalMVN" \notin ivm_data']_vars

\* the store held finalMVN, saved by the first step, before the last callback
C4_Witness ==
    /\ IsFinished(ev) /\ ev.was_running /\ ev.arg = SUCCEEDED
    /\ status = SUCCEEDED
    /\ Len(executed) >= 2
    /\ "finalMVN" \notin ivm_data

\* C5: since run() was last called, sig_finished has been emitted once if the
\* status is no longer RUNNING and not at all if it still is; it carries the
\* status the run ended with.
C5_FinishedOnce ==
    nruns >= 1 =>
        IF status = RUNNING THEN sig_finished = <<>>
        ELSE Len(sig_finished) = 1 /\ sig_finished[1].status = status

\* events went on arriving after the run had ended
C5_Witness ==
    /\ status \in {SUCCEEDED, FAILED, CANCELLED}
    /\ ~ev.was_running
    /\ IsFinished(ev) \/ IsProgress(ev) \/ ev.kind = "cancel"
    /\ Len(sig_finished) = 1

\* the progress reports of this run for which sig_progress was emitted
HasEmitted(e) == e.emitted # <<>>
Emissions == SelectSeq(progress_hist, HasEmitted)

\* the value (k - 1 + f)/N for the report e of step k of N
ExpectedProgress(e, n) ==
    Rat(e.inv.step * e.complete.den + e.complete.num, e.complete.den * n)

InUnitInterval(r) == 0 <= r.num /\ r.num <= r.den

\* C6: while the run goes on, every value emitted for a report f of the step
\* in flight, the k-th of N, is (k - 1 + f)/N and lies in [0,1], for f given
\* as a float and for f given as the int 0 or 1.
C6_ScaledValue ==
    status = RUNNING =>
        \A i \in 1..Len(Emissions) :
            ~Emissions[i].late =>
                /\ RatEq(Emissions[i].emitted[1],
                         ExpectedProgress(Emissions[i], Len(steps)))
                /\ InUnitInterval(Emissions[i].emitted[1])

\* what each invocation reported did not decrease
StepFractionsNonDecreasing ==
    \A i, j \in 1..Len(progress_hist) :
        (i < j /\ progress_hist[i].inv = progress_hist[j].inv) =>
            Level(progress_hist[i].complete) <= Level(progress_hist[j].complete)

\* the last report of the run is the last step's report, made while it was
\* in flight, of a fraction of 1
LastStepReportedAll ==
    /\ progress_hist # <<>>
    /\ Last(progress_hist).inv = Last(executed).id
    /\ ~Last(progress_hist).late
    /\ Level(Last(progress_hist).complete) = 2

\* C7: given that, the values emitted on sig_progress during the run do not
\* decrease, and after a successful run whose last step ended its reports
\* with 1 the last value emitted is 1.
C7_NonDecreasing ==
    StepFractionsNonDecreasing =>
        /\ \A i, j \in 1..Len(Emissions) :
               i < j => RatLeq(Emissions[i].emitted[1], Emissions[j].emitted[1])
        /\ (status = SUCCEEDED /\ LastStepReportedAll) =>
               /\ HasEmitted(Last(progress_hist))
               /\ RatEq(Last(progress_hist).emitted[1], Rat(1, 1))

\* C8: at most one fabber invocation is dispatched and not yet completed.
C8_OneInFlight == Cardinality(inflight) <= 1

\* the options _start_fabber added to those of the j-th step of the list
AddedKeys(j) == (DOMAIN executed[j].options) \ (DOMAIN steps[j].options)

\* C9: of the invocations dispatched in this run, the one for the last step
\* of the list has save-mean, save-std and save-model-fit added and not
\* save-mvn; every earlier one has save-mvn added and none of the three.
C9_SaveOptions ==
    Len(steps) > 0 =>
        \A j \in 1..Len(executed) :
            /\ executed[j].id.step = steps[j].step
            /\ IF j = Len(steps)
               THEN SummaryKeys \subseteq AddedKeys(j) /\ "save-mvn" \notin AddedKeys(j)
               ELSE "save-mvn" \in AddedKeys(j) /\ AddedKeys(j) \cap SummaryKeys = {}

C9_Witness ==
    /\ Len(steps) >= 2
    /\ Len(executed) = Len(steps)
    /\ "save-mvn" \in DOMAIN executed[1].options
    /\ SummaryKeys \subseteq DOMAIN Last(executed).options

\* the step descriptions in the log that belong to the step described desc
DescriptionsOf(desc) ==
    {log[i] : i \in {k \in 1..Len(log) : log[k].kind = "step_desc" /\ log[k].step = desc}}

\* C10: the options dispatched for a step hold continue-from-mvn = finalMVN
\* exactly if the step has a predecessor index, 0 included, and then the
\* description in the log names that predecessor, and otherwise none.
C10_ContinueFrom ==
    Len(steps) > 0 =>
        \A j \in 1..Len(executed) :
            LET options == executed[j].options
                continues == "continue-from-mvn" \in DOMAIN options
            IN  /\ continues <=> steps[j].prev_step # {}
                /\ continues => options["continue-from-mvn"] = "finalMVN"
                /\ DescriptionsOf(steps[j].step_desc) =
                       {DescLog(steps[j].step_desc, steps[j].prev_step)}

\* a step whose predecessor index is 0 has been dispatched
C10_Witness ==
    /\ Len(steps) >= 2
    /\ Len(executed) >= 2
    /\ steps[2].prev_step = {0}
    /\ "continue-from-mvn" \in DOMAIN executed[2].options
    /\ "continue-from-mvn" \notin DOMAIN executed[1].options

\* C11: cancel() changes neither status, step index, step list nor log and
\* emits no signal and dispatches nothing; apart from run(), the status
\* changes only in a completion callback, to the status the callback reports.
C11_CancelForwards ==
    [][/\ ev'.kind = "cancel" =>
              /\ UNCHANGED <<status, step_num, steps, log, executed, inflight,
                             sig_step, sig_finished>>
              /\ sig_progress' = <<>>
       /\ (status' # status /\ ev'.kind # "run") =>
              /\ IsFinished(ev')
              /\ status' = ev'.arg]_vars

\* cancel() was called with an invocation in flight and the run goes on
C11_Witness ==
    /\ ev.kind = "cancel" /\ ev.was_running
    /\ status = RUNNING
    /\ inflight # {} /\ InFlightIds \subseteq cancel_req
    /\ sig_finished = <<>>

\* the j-th invocation of this run has completed
Completed(j) == \A inv \in inflight : inv.id # executed[j].id

NumCompleted == Cardinality({j \in 1..Len(executed) : Completed(j)})

\* C12: in one run the log is only appended to, and it is made of the text
\* of get_steps, then for each step dispatched, in order, its description
\* followed (once it has completed) by its sub-log, then the annotation of
\* the end of the run: COMPLETE after success, CANCELLED after a failure.
C12_LogOrder ==
    [][/\ ev'.kind # "run" =>
              /\ Len(log) <= Len(log')
              /\ SubSeq(log', 1, Len(log)) = log
       /\ nruns' >= 1 =>
              /\ log'[1] = StepsLog
              /\ \A j \in 1..Len(executed') :
                     /\ log'[2 * j].kind = "step_desc"
                     /\ log'[2 * j].step = executed'[j].id.step
                     /\ Completed(j)' => log'[2 * j + 1] = FabberLog(executed'[j].id)
                     /\ j < Len(executed') => Completed(j)'
              /\ Len(log') = 1 + Len(executed') + NumCompleted'
                                + (IF status' = RUNNING THEN 0 ELSE 1)
              /\ status' = SUCCEEDED => Last(log') = CompleteLog
              /\ status' \in {FAILED, CANCELLED} => Last(log') = CancelledLog]_vars

\* a run of two steps whose second step failed
C12_Witness ==
    /\ status = FAILED
    /\ Len(executed) = 2
    /\ log = <<StepsLog, log[2], FabberLog(executed[1].id), log[4],
               FabberLog(executed[2].id), CancelledLog>>
    /\ log[2].kind = "step_desc" /\ log[4].kind = "step_desc"

\* the structure, the options given to run() and those given to get_steps
TheStruc == CHOOSE d \in struc : TRUE
TheRunOptions == CHOOSE o \in run_options : TRUE
TheBasilOptions == CHOOSE o \in basil_options : TRUE

RunReturned == ev.kind = "run" /\ ev.arg = "ok"

AllTauKeys == {TauKey(i) : i \in 1..3}
AllTiKeys == {TiKey(i) : i \in 1..3}

\* C13: in the options run() gives to get_steps, for a continuous (casl)
\* acquisition with all label durations equal there is 'tau' and no
\* 'tau<i>'; with durations that differ there is one 'tau<i>' for each
\* duration, equal to it, and no 'tau'; for a non-continuous acquisition
\* there is no tau option and no 'casl'.
C13_TauOptions ==
    RunReturned =>
        LET d == TheStruc
            o == TheBasilOptions
        IN  IF d["casl"]
            THEN LET taus == d["taus"]
                 IN  IF \A i, j \in DOMAIN taus : taus[i] = taus[j]
                     THEN /\ "tau" \in DOMAIN o
                          /\ o["tau"] = Str(taus[1])
                          /\ (DOMAIN o) \cap AllTauKeys = {}
                     ELSE /\ "tau" \notin DOMAIN o
                          /\ (DOMAIN o) \cap AllTauKeys =
                                 {TauKey(i) : i \in DOMAIN taus}
                          /\ \A i \in DOMAIN taus : o[TauKey(i)] = Str(taus[i])
            ELSE (DOMAIN o) \cap (AllTauKeys \cup {"tau", "casl"}) = {}

\* run() returned for a continuous acquisition of two different durations
C13_Witness ==
    /\ RunReturned
    /\ TheStruc["casl"] /\ TheStruc["taus"] = <<14, 16>>
    /\ {"tau1", "tau2"} \subseteq DOMAIN TheBasilOptions
    /\ executed # <<>>

\* the structure is one AslImage accepts, says whether the labelling is
\* continuous and, if it is, gives one label duration or one for each delay
ValidAcquisition(d) ==
    /\ AslImageOk(d)
    /\ "casl" \in DOMAIN d
    /\ d["casl"] =>
           /\ "taus" \in DOMAIN d
           /\ Len(d["taus"]) \in {1, Len(AslTis(d))}

\* the label duration that applies to the i-th delay
TauFor(taus, i) == IF Len(taus) = 1 THEN taus[1] ELSE taus[i]

\* C14: for a valid acquisition whose image options are found, run() gives
\* get_steps exactly one 'ti<i>' for each delay i: the delay plus the label
\* duration that applies to it when labelling is continuous, the delay
\* itself otherwise.
C14_TiOptions ==
    (ev.kind = "run" /\ ev.arg # "QpException" /\ ValidAcquisition(TheStruc)) =>
        /\ ev.arg = "ok"
        /\ LET d == TheStruc
               o == TheBasilOptions
               tis == AslTis(d)
           IN  /\ (DOMAIN o) \cap AllTiKeys = {TiKey(i) : i \in DOMAIN tis}
               /\ \A i \in DOMAIN tis :
                      o[TiKey(i)] = Str(IF d["casl"]
                                        THEN tis[i] + TauFor(d["taus"], i)
                                        ELSE tis[i])

\* C15: a call of run() whose image option names a dataset that is neither
\* in ivm.data nor in ivm.rois raises (QpException when the structure is
\* accepted) and leaves status, step list, step index and log as they were,
\* dispatches nothing and emits nothing.
C15_MissingImage ==
    [][(/\ ev'.kind = "run"
        /\ "t1im" \in DOMAIN TheRunOptions'
        /\ TheRunOptions'["t1im"] \notin ivm_data' \cup ivm_rois') =>
           /\ run_result' \in {"QpException", "AslImageError"}
           /\ AslImageOk(TheStruc') => run_result' = "QpException"
           /\ status' # RUNNING
           /\ UNCHANGED <<status, steps, step_num, log, executed, inflight,
                          sig_step, sig_finished, basil_options>>
           /\ sig_progress' = <<>>]_vars

\* run() raised QpException after the data and the ROI had been added
C15_Witness ==
    /\ ev.kind = "run" /\ run_result = "QpException"
    /\ TheRunOptions["t1im"] = "nothere"
    /\ "asldata" \in ivm_data
    /\ status = PENDING /\ steps = <<>> /\ executed = <<>>

\* C16: a call of run() in which AslImage does not accept the structure
\* raises in get_asldata and leaves the stored structure, the data store
\* and the ROI store as they were, and dispatches nothing.
C16_NothingApplied ==
    [][(ev'.kind = "run" /\ ~AslImageOk(TheStruc')) =>
           /\ run_result' = "AslImageError"
           /\ UNCHANGED <<extras, ivm_data, ivm_rois, executed, inflight,
                          status, steps>>]_vars

\* get_asldata raised when a structure was stored already, another one
C16_Witness ==
    /\ ev.kind = "run" /\ run_result = "AslImageError"
    /\ extras # {}
    /\ DOMAIN YamlLoad(CHOOSE y \in extras : TRUE) # DOMAIN TheStruc
    /\ "roi" \in ivm_rois

\* the last call was Workspace.run / a tool wrapper
IsRunCall == wcall.op = "run"
IsToolCall == wcall.op \in Tools

\* the files a call returned
ReturnedFiles == Elements(wcall.imgs) \cup {wcall.text[k] : k \in DOMAIN wcall.text}

\* C17: when the program exits with a status other than 0, Workspace.run
\* raises RuntimeError, returns no image and no text file and does not
\* collect the files after the run; when it exits with 0 this error is not
\* raised.
C17_NonZeroExit ==
    IsRunCall =>
        /\ wcall.exit \notin {"0", "oserror"} =>
               /\ wcall.raised = "RuntimeError"
               /\ ~wcall.collected
               /\ wcall.imgs = <<>> /\ wcall.text = EmptyDict
        /\ wcall.exit = "0" => wcall.raised # "RuntimeError"

\* the program wrote files and exited with status 1
C17_Witness ==
    /\ IsRunCall /\ wcall.exit = "1" /\ wcall.raised = "RuntimeError"
    /\ \E f \in DOMAIN fs_files : Under(wsps[wcall.w].workdir, f) /\ fs_files[f].mtime = now
    /\ now > 0

\* C18: without expected patterns the files Workspace.run returns are those
\* of the snapshot after the run that are not in the snapshot before it or
\* have a later modification time; with expected patterns they are the files
\* after the run that match a pattern, changed or not.
C18_OutputSelection ==
    (IsRunCall /\ wcall.collected /\ wcall.raised = "") =>
        LET pre == wcall.pre
            post == wcall.post
        IN  /\ ReturnedFiles = Elements(wcall.files)
            /\ IF wcall.expected = <<>>
               THEN ReturnedFiles =
                        {f \in DOMAIN post : f \notin DOMAIN pre \/ post[f] > pre[f]}
               ELSE ReturnedFiles =
                        {f \in DOMAIN post :
                             \E i \in DOMAIN wcall.expected : ReMatch(wcall.expected[i], f)}

\* before the run {a: t0}, after it {a: t0, b: t1}, nothing expected: b
C18_Witness ==
    /\ IsRunCall /\ wcall.collected /\ wcall.expected = <<>>
    /\ DOMAIN wcall.pre = {<<"a">>}
    /\ DOMAIN wcall.post = {<<"a">>, <<"b">>}
    /\ wcall.post[<<"a">>] = wcall.pre[<<"a">>]
    /\ wcall.post[<<"b">>] > wcall.pre[<<"a">>]
    /\ ReturnedFiles = {<<"b">>}

\* the family of the values of Python the argument img belongs to
FamilyOf(img) == img.family

\* C19: a tool wrapper given an image argument that is neither a file name,
\* an Image nor an array raises TypeError before a program is run; a wrapper
\* that returns gives back images of the family of its argument, and a
\* single image as itself, not in a list or tuple.
C19_SameFamily ==
    IsToolCall =>
        /\ FamilyOf(wcall.img) = "other" =>
               wcall.raised = "TypeError" /\ ~wcall.invoked
        /\ wcall.raised = "" =>
               /\ \A i \in DOMAIN wcall.value.items :
                      wcall.value.items[i].family = FamilyOf(wcall.img)
               /\ Len(wcall.value.items) = 1 => wcall.value.container = "none"

\* the directory tempfile.mkdtemp made for a workspace
IsTempDir(dir) == Len(dir) = 1 /\ \E i \in DOMAIN TempNames : dir[1] = TempNames[i]

\* C20: a workspace is temporary exactly if it was created on a directory
\* of its own making; when a temporary workspace is released its directory
\* and everything in it is gone, and when any other workspace (one on a
\* given directory, a sub-workspace) is released no directory and no file
\* is deleted; nothing else deletes a directory.
C20_TempDeleted ==
    [][/\ \A w \in DOMAIN wsps' : wsps'[w].is_temp <=> IsTempDir(wsps'[w].workdir)
       /\ \A w \in DOMAIN wsps :
              (~wsps[w].released /\ wsps'[w].released) =>
                  IF wsps[w].is_temp
                  THEN /\ wsps[w].workdir \notin fs_dirs'
                       /\ \A f \in DOMAIN fs_files' : ~Under(wsps[w].workdir, f)
                  ELSE fs_dirs' = fs_dirs /\ fs_files' = fs_files
       /\ (\A w \in DOMAIN wsps : wsps'[w].released = wsps[w].released) =>
              fs_dirs \subseteq fs_dirs']_vars

\* a temporary workspace was released after a call on it had raised
C20_Witness ==
    /\ wcall.op = "run" /\ wcall.raised = "RuntimeError"
    /\ wsps[wcall.w].is_temp /\ wsps[wcall.w].released
    /\ wsps[wcall.w].workdir \notin fs_dirs
    /\ \E w \in DOMAIN wsps : ~wsps[w].is_temp /\ wsps[w].released
                                  /\ wsps[w].workdir \in fs_dirs

\* the kind of the file with the name f in the workspace of the last call
KindOfFile(f) == fs_files[Join(wsps[wcall.w].workdir, f)].kind

\* C26: every file Workspace.run selects for return is accounted for: an
\* image is among the images returned, a text file is among the text files
\* returned, with its own content, and when a selected file is neither the
\* call raises.
C26_AllAccounted ==
    (IsRunCall /\ wcall.collected) =>
        LET sel == Elements(wcall.files)
        IN  IF \E f \in sel : KindOfFile(f) \notin {"image", "text"}
            THEN wcall.raised # ""
            ELSE /\ wcall.raised = ""
                 /\ \A f \in sel :
                        KindOfFile(f) = "image" => f \in Elements(wcall.imgs)
                 /\ \A f \in sel :
                        KindOfFile(f) = "text" =>
                            \E k \in DOMAIN wcall.text : wcall.text[k] = f

\* every regular file under workdir, by its name relative to workdir
Snapshot(files, workdir) ==
    [rel \in {RelPath(f, workdir) : f \in {g \in DOMAIN files : Under(workdir, g)}} |->
         files[Join(workdir, rel)].mtime]

\* C30: a program Workspace.run invokes runs with the working directory of
\* the workspace as current directory, and the snapshots taken before and
\* after it hold every file under the working directory, at any depth,
\* once, under its name relative to the working directory.
C30_Snapshots ==
    [][(ncalls' = ncalls + 1 /\ wcall'.op = "run") =>
           LET workdir == wsps[wcall'.w].workdir
           IN  /\ wcall'.ran_in = {workdir}
               /\ wcall'.collected =>
                      /\ wcall'.pre = Snapshot(fs_files, workdir)
                      /\ wcall'.post = Snapshot(fs_files', workdir)]_vars

\* the program has written files one and two directories down
C30_Witness ==
    /\ IsRunCall /\ wcall.collected
    /\ wcall.ran_in = {wsps[wcall.w].workdir} /\ cwd = StartDir
    /\ DOMAIN wcall.pre = {<<"a">>}
    /\ {<<"a">>, <<"d1", Sep, "b">>, <<"d1", Sep, "e", Sep, "c">>} \subseteq DOMAIN wcall.post
    /\ <<"b">> \notin DOMAIN wcall.post

\* the configuration of a workspace
ConfigOf(wsp) ==
    [echo |-> wsp.echo_enabled, debug |-> wsp.debug_enabled, path |-> wsp.path,
     log |-> wsp.log, workdir |-> wsp.workdir]

\* C29: a call of a tool wrapper leaves the echo flag, the debug flag, the
\* search path, the log and the working directory of its workspace as they
\* were.
C29_ConfigKept ==
    [][(ncalls' = ncalls + 1 /\ wcall'.op \in Tools) =>
           ConfigOf(wsps'[wcall'.w]) = ConfigOf(wsps[wcall'.w])]_vars

\* the least number of a non-empty set of numbers
Least(S) == CHOOSE i \in S : \A j \in S : i <= j

C28_FirstOnPath ==
    wcall.op = "_find" =>
        LET path == wsps[wcall.w].path
            hits == {i \in DOMAIN path :
                         /\ Join(path[i], wcall.cmd) \in DOMAIN fs_files
                         /\ fs_files[Join(path[i], wcall.cmd)].kind = "program"}
        IN  IF hits = {} THEN wcall.value = wcall.cmd
            ELSE wcall.value = Join(path[Least(hits)], wcall.cmd)

\* the first directory holds a file of the name that cannot be executed,
\* the second the program
C28_Witness ==
    /\ wcall.op = "_find"
    /\ Join(LocalDir, Cmd) \in DOMAIN fs_files
    /\ fs_files[Join(LocalDir, Cmd)].kind = "text"
    /\ wcall.value = Join(FslBin, Cmd)

\* the last call was Workspace.fabber and it built its command line
IsFabberCall == wcall.op = "fabber" /\ wcall.invoked /\ "flags" \in DOMAIN wcall

\* C21: an option whose value is True or the empty string is rendered as
\* the bare flag, one whose value is False or None is not rendered, and
\* one with any other value is rendered as --key=value.
C21_FlagRendering ==
    IsFabberCall =>
        \A k \in (DOMAIN wcall.options) \ (FixedKeys \cup {"overwrite"}) :
            LET v == wcall.options[k]
            IN  IF v \in {PyBool(TRUE), PyStr(<<>>)}
                THEN k \in DOMAIN wcall.flags /\ wcall.flags[k] = Bare
                ELSE IF v \in {PyBool(FALSE), PyNone}
                THEN k \notin DOMAIN wcall.flags
                ELSE k \in DOMAIN wcall.flags /\ wcall.flags[k] = v

\* C22: fabber renders data, mask and output from its own arguments,
\* whatever the caller gave under these keys, always renders the bare flag
\* save-mvn, leaves the caller's mapping as it was, expects
\* <output>/finalMVN and returns the image found under this name.
C22_FixedFlags ==
    IsFabberCall =>
        LET output_name == wcall.img.iname \o <<"_fabber">>
        IN  /\ {"data", "mask", "output", "save-mvn"} \subseteq DOMAIN wcall.flags
            /\ wcall.flags["data"] = PyStr(wcall.img.iname)
            /\ wcall.flags["mask"] = PyStr(wcall.mask.iname)
            /\ wcall.flags["output"] = PyStr(output_name)
            /\ wcall.flags["save-mvn"] = Bare
            /\ wcall.options_after = wcall.options
            /\ wcall.expected = <<output_name \o <<Sep, "finalMVN">>>>
            /\ wcall.raised = "" =>
                   /\ wcall.value.container = "none"
                   /\ Len(wcall.value.items) = 1
                   /\ wcall.value.items[1].of = output_name \o <<Sep, "finalMVN", NiiGz>>
                   /\ wcall.value.items[1].family = wcall.img.family

\* the caller gave data, mask, output and save-mvn=False, and the call
\* returned the image
C22_Witness ==
    /\ IsFabberCall /\ wcall.raised = ""
    /\ FixedKeys \subseteq DOMAIN wcall.options
    /\ wcall.options["save-mvn"] = PyBool(FALSE)
    /\ wcall.flags["save-mvn"] = Bare
    /\ wcall.flags["data"] # wcall.options["data"]
    /\ Len(wcall.value.items) = 1

\* C27: AslPreprocProcess.run with none of differencing, reordering and
\* mean across repeats selected leaves the data store holding the datasets
\* it held before.
C27_NoNewDataset ==
    [][(ev'.kind = "preproc" /\ nruns' = nruns + 1
            /\ AslOps(CHOOSE o \in run_options' : TRUE) = <<>>) =>
           ivm_data' = ivm_data]_vars

\* the rows of a text: for each line that holds something beside blanks
\* and a comment, what stands between the commas and blanks before the #
RowsOf(text) ==
    LET NotBlank(vals) == vals # <<>>
        lines == SplitLines(text)
    IN  SelectSeq([i \in DOMAIN lines |-> Vals(DiscardComment(lines[i]))], NotBlank)

\* C24: text_to_matrix raises whenever a row has another number of columns
\* than the first row or holds something that is not a number; otherwise
\* it returns one row of numbers for every row of the text, with as many
\* columns, commas and blanks separating, comments and blank lines left
\* out.
C24_ParseOrRaise ==
    wcall.op = "text_to_matrix" =>
        LET rows == RowsOf(wcall.text)
        IN  IF \/ \E i \in DOMAIN rows : Len(rows[i]) # Len(rows[1])
               \/ \E i \in DOMAIN rows : \E j \in DOMAIN rows[i] : ~IsFloat(rows[i][j])
            THEN wcall.raised = "ValueError"
            ELSE /\ wcall.raised = ""
                 /\ Len(wcall.value) = Len(rows)
                 /\ \A i \in DOMAIN rows :
                        /\ Len(wcall.value[i]) = Len(rows[i])
                        /\ \A j \in DOMAIN rows[i] :
                               wcall.value[i][j] = FloatOf(rows[i][j])

\* a row of one column, then a row of two separated by a comma: raised
C24_Witness ==
    /\ wcall.op = "text_to_matrix"
    /\ wcall.text = <<"1", NL, "1", ",", "1">>
    /\ wcall.raised = "ValueError"

\* C25: a matrix with at least one row and one column that is serialized
\* and parsed again comes back with the same number of rows and columns
\* and equal entries.
C25_RoundTrip ==
    wcall.op = "round_trip" =>
        /\ wcall.raised = ""
        /\ Len(wcall.value) = Len(wcall.mat)
        /\ \A r \in DOMAIN wcall.mat :
               /\ Len(wcall.value[r]) = Len(wcall.mat[r])
               /\ \A c \in DOMAIN wcall.mat[r] :
                      RatEq(wcall.value[r][c], Rat(wcall.mat[r][c], 10))

\* a matrix of two rows and two columns with a negative entry
C25_Witness ==
    /\ wcall.op = "round_trip"
    /\ Len(wcall.mat) = 2 /\ Len(wcall.mat[1]) = 2
    /\ wcall.mat[1][1] < 0 /\ wcall.mat[2][2] = 120
    /\ wcall.text[1] = "-"
    /\ Len(wcall.value) = 2

\* C31: a completion or progress callback of an invocation dispatched by an
\* earlier run neither advances the step index of the run that followed it,
\* nor dispatches a step, extends the log, changes the status or emits
\* progress or sig_finished for it.
C31_StaleIgnored ==
    [][((IsFinished(ev') \/ IsProgress(ev')) /\ ev'.inv.run < nruns) =>
           /\ UNCHANGED <<status, step_num, log, executed, sig_step,
                          sig_finished>>
           /\ inflight' \subseteq inflight
           /\ sig_progress' = <<>>]_vars

\* C32: in one run, the completion callback of an invocation that was in
\* flight when cancel() was called dispatches no step, whatever status it
\* reports (within one run a step is dispatched only by the completion
\* callback of the step before it, so nothing is dispatched after the call).
C32_NoDispatchAfterCancel ==
    [][(IsFinished(ev') /\ ev'.inv \in cancel_req) =>
           /\ executed' = executed
           /\ step_num' <= step_num]_vars

Terminal == {SUCCEEDED, FAILED, CANCELLED}

\* C33: when every invocation dispatched delivers its completion callback, a
\* run that is RUNNING reaches a terminal status with sig_finished emitted;
\* and a call of run() returns either with one invocation dispatched and the
\* status RUNNING or, the step list being empty, with nothing dispatched,
\* the status SUCCEEDED and sig_finished emitted once.
C33_Terminates ==
    /\ (status = RUNNING) ~> (status \in Terminal /\ Len(sig_finished) = 1)
    /\ [](ev.kind = "run" /\ ev.arg = "ok" =>
              \/ status = RUNNING /\ Len(executed) = 1 /\ sig_finished = <<>>
              \/ /\ status = SUCCEEDED /\ executed = <<>>
                 /\ Len(sig_finished) = 1 /\ sig_finished[1].status = SUCCEEDED)

\* every step of the longest list has completed and the run has ended
C33_Witness ==
    /\ status = SUCCEEDED
    /\ Len(executed) = MaxSteps
    /\ inflight = {}
    /\ Len(sig_finished) = 1

\* C34: whenever the status is RUNNING the step list is not empty and
\* step_num is the 1-based index of a step of it, between 1 and len(steps),
\* so that a progress callback divides by a positive number; and when the
\* status is SUCCEEDED the step list is empty and step_num is 0.
C34_StepIndex ==
    /\ status = RUNNING =>
           /\ Len(steps) > 0
           /\ 1 <= step_num /\ step_num <= Len(steps)
           /\ IsProgress(ev) => Len(sig_progress) = 1
    /\ status = SUCCEEDED => steps = <<>> /\ step_num = 0

\* a progress callback observed the last step of the longest list in flight
C34_Witness ==
    /\ status = RUNNING
    /\ IsProgress(ev)
    /\ step_num = MaxSteps /\ Len(steps) = MaxSteps
    /\ Len(sig_progress) = 1

\* C35: a dispatch leaves the step list as it is: the list is one that
\* get_steps returned (each step with its own options, description and
\* predecessor) until it is cleared on success, the options sent hold the
\* step's options unchanged beside those added, and the list changes only in
\* run() or when it is cleared by the callback that ends the run SUCCEEDED.
C35_StepsUnmodified ==
    /\ [](/\ steps \in AllStepLists
          /\ status = RUNNING =>
                 \A k \in DOMAIN Last(executed).options :
                     k \in DOMAIN StepOptions =>
                         Last(executed).options[k] = StepOptions[k])
    /\ [][steps' # steps =>
              \/ ev'.kind = "run"
              \/ IsFinished(ev') /\ status' = SUCCEEDED /\ steps' = <<>>]_vars

\* the second step was dispatched by a completion callback, with options
\* added to the copy sent and none to the step
C35_Witness ==
    /\ IsFinished(ev) /\ ev.was_running
    /\ status = RUNNING
    /\ Len(executed) = 2
    /\ DOMAIN Last(executed).options # DOMAIN StepOptions
    /\ steps[2].options = StepOptions

\* the outputs of bet for the call recorded in wcall
BetBrain == InputName(wcall.img) \o <<"_bet", NiiGz>>
BetMask == InputName(wcall.img) \o <<"_bet", "_mask", NiiGz>>

\* how many of the values returned are the image in file fname
TimesReturned(fname) ==
    Cardinality({i \in DOMAIN wcall.value.items : wcall.value.items[i].of = fname})

\* C36: bet, when it returns, gives back the brain-extracted image as itself
\* when that is the only output in the working directory, and when the mask
\* is there as well a tuple of two images, the brain-extracted image and the
\* mask, each once.
C36_BetOutputs ==
    (IsToolCall /\ wcall.op = "bet" /\ wcall.raised = ""
         /\ BetBrain \in DOMAIN wcall.post) =>
        IF BetMask \in DOMAIN wcall.post
        THEN /\ wcall.value.container = "tuple"
             /\ Len(wcall.value.items) = 2
             /\ TimesReturned(BetBrain) = 1
             /\ TimesReturned(BetMask) = 1
        ELSE /\ wcall.value.container = "none"
             /\ Len(wcall.value.items) = 1
             /\ TimesReturned(BetBrain) = 1

\* the words of the strings of a tuple, in order ("" when the tuple is empty)
RECURSIVE WordsOf(_)
WordsOf(strings) ==
    IF strings = <<>> THEN <<>> ELSE Head(strings) \o WordsOf(Tail(strings))

\* C37: the command line maths gives its program holds the arguments the
\* caller gave positionally, between the name of the input image and the
\* output name.
C37_PositionalArgs ==
    (wcall.op = "maths" /\ wcall.invoked) =>
        wcall.cmdline =
            <<InputName(wcall.img), WordsOf(wcall.args),
              InputName(wcall.img) \o <<"_maths">>>>

\* the structure stored for the dataset, the empty one if none is stored
StoredStruc == IF extras = {} THEN EmptyDict ELSE YamlLoad(CHOOSE y \in extras : TRUE)

\* C38: after get_asldata the structure holds, for each structure option,
\* the value given in the call when it is given and otherwise what the
\* structure stored for the dataset held for it before the call.
C38_StoredKept ==
    [][ev'.kind = "preproc" =>
           \A options \in run_options' : \A d \in struc' : \A k \in StrucKeys :
               IF k \in DOMAIN options
               THEN k \in DOMAIN d /\ d[k] = options[k]
               ELSE /\ k \in DOMAIN d <=> k \in DOMAIN StoredStruc
                    /\ k \in DOMAIN d => d[k] = StoredStruc[k]]_vars

\* C40: a call of Workspace.run, whether it returns or raises (the program
\* cannot be started, it exits with a status other than 0, or an output
\* file cannot be read), leaves the current directory of the process as it
\* was before the call.
C40_CwdRestored ==
    [][(wcall'.op = "run" /\ ncalls' # ncalls) => cwd' = cwd]_vars

\* the program ran in the working directory, an output could not be read
\* and the process is back where it was
C40_Witness ==
    /\ wcall.op = "run"
    /\ wcall.raised = "IOError"
    /\ wcall.ran_in # {} /\ cwd \notin wcall.ran_in
    /\ cwd = StartDir

\* the event just handled is one of the three callbacks of the script
IsScriptCallback(e) == e.kind \in {"done_process", "macro_progress", "done_script"}

\* C39: a MacroProcess has emitted sig_finished at most once since run();
\* once its status is other than RUNNING a process-done, progress or
\* script-finished callback changes neither status, exception nor log and
\* emits nothing; and its status is SUCCEEDED only if no process of the
\* script reported a status other than SUCCEEDED.
C39_MacroFinishedOnce ==
    /\ [](Len(macro.sig_finished) <= 1)
    /\ [](macro.status = SUCCEEDED => ~script.failed)
    /\ [][(IsScriptCallback(ev') /\ macro.status # RUNNING) =>
              /\ macro'.status = macro.status
              /\ macro'.exception = macro.exception
              /\ macro'.log = macro.log
              /\ macro'.sig_finished = macro.sig_finished
              /\ macro'.sig_progress = <<>>]_vars

====
